---- MODULE Spec2Model ----
(***************************************************************************)
(* tron-signal: block ingestion and signal pipeline.                       *)
(*                                                                         *)
(*   machine.Manager  (multi state machine engine: TRIGGER / HIT)          *)
(*   block.RingBuffer (dedup ring)                                         *)
(*   app.Core         (OnBlock / SwitchJudgeRule orchestration)            *)
(*   judge.Judge      (ON / OFF classification of a block hash)            *)
(*   source.Dispatcher (FetchAny over the enabled fetchers)                *)
(*   app.Runner       (polling loop, policy, Stop)                         *)
(*                                                                         *)
(* Go strings are modelled as sequences of one-character strings, so that  *)
(* concatenation (makeKey) and character scans (parseHeight) are computed  *)
(* as the code computes them.  Machine ids are opaque and kept as atoms.   *)
(***************************************************************************)
EXTENDS Integers, Sequences, FiniteSets, TLC

VARIABLES
    cfgs,        \* Manager.cfgs  : id -> Config
    rts,         \* Manager.rts   : id -> Runtime
    order,       \* Manager.order : sequence of ids (UI order)
    out,         \* signals returned by the last Manager.OnBlock call
    lastCall,    \* the last Manager operation and its arguments
    hist,        \* history: classifications of the most recent blocks fed to OnBlock
    gateOpen,    \* history: per id, number of most recent consecutive blocks that the
                 \*          machine processed with waitingReverse = false on entry
    dirty,       \* history: per id, its config was changed while its counter was not zero
                 \*          (the streak being counted began under another config)
    pend,        \* history: per id, the TRIGGERs whose k-th following block is still ahead
    due,         \* history: per id, hitExpect of the TRIGGERs whose k-th block is the last one
    snap,        \* history: per id, HIT settings of the config at its latest TRIGGER
                 \*          and the block of that TRIGGER
    span,        \* history: per id, what happened since its latest TRIGGER under the
                 \*          config it still has: blocks still needed to be Threshold + 1
                 \*          blocks away, a block in the reverse state was seen; and, in
                 \*          the state a TRIGGER leaves, the same as it was before it
    stopped,     \* history: the ids the latest StopAll disabled and no Upsert has enabled
                 \*          since
    ringItems,   \* RingBuffer.items, oldest first
    ringIndex,   \* RingBuffer.index, the set of keys
    ringRet,     \* the last RingBuffer operation, its argument and what it returned
    admitted,    \* history: the most recent blocks Push admitted, oldest first
    judgeRule,   \* Judge.rule
    lastHeight,  \* Core.lastHeight
    lastHash,    \* Core.lastHash
    lastTime,    \* Core.lastTime
    lastHeightNum, \* Core.lastHeightNum
    rpc,         \* Runner thread: position inside Core.OnBlock
    rblk,        \* Runner thread: the block of the running Core.OnBlock call
    rstate,      \* Runner thread: local `state` of Core.OnBlock
    rsigs,       \* Runner thread: local `signals` of the running or last Core.OnBlock
    hubSent,     \* signals the running or last Core.OnBlock has passed through Hub.Broadcast
    radmRule,    \* history: Judge.rule when the running call's block was admitted
    spc,         \* API thread: position inside Core.SwitchJudgeRule
    srule,       \* API thread: argument of the running Core.SwitchJudgeRule call
    switched,    \* history: SwitchJudgeRule has returned and no block was admitted since
    drove,       \* history: per key, how often its block was fed to the machine engine
                 \*          since the key entered the ring
    clients,     \* Hub.clients : the set of registered connections
    closed,      \* connections that were closed
    hconns,      \* Hub.Broadcast: local slice `clients` of the running call
    hi,          \* Hub.Broadcast: position in that slice, 0 when no call is running
    failed,      \* history: connections a write of Hub.Broadcast failed on
    wlog,        \* history: per connection, the writes of the running or last
                 \*          Core.OnBlock on it: index and signal, and whether it succeeded
    judgeRet,    \* the last Judge operation, its argument and what it returned
    sources,     \* Dispatcher.sources : the fetchers, each with its ID and Config().Enabled
    lastSeen,    \* Dispatcher.lastSeen : source id -> key of the block it yielded last
    fetchRet,    \* the last Dispatcher operation: the results in order of arrival,
                 \*   the memo and the fetchers the call started from, what it returned
    faPc,        \* FetchAny, goroutine by goroutine: position of the calling goroutine
    faSrcs,      \* FetchAny: local slice `srcs`
    ch,          \* FetchAny: the results buffered in channel `ch`, oldest first
    chClosed,    \* FetchAny: `ch` is closed
    gor,         \* FetchAny: per fetcher of srcs, the position of its goroutine, the
                 \*   result it got from FetchLatest, and (history) whether it sent the
                 \*   result after FetchAny had returned
    closerPc,    \* FetchAny: position of the goroutine that waits and closes `ch`
    faRet,       \* what the last FetchAny run goroutine by goroutine returned
    majorIncidents, \* Core.majorIncidents (the Core the Runner drives)
    coreRet,     \* the last call of that Core's OnBlock: its argument, what it did
    autoRestart, \* Runner.autoRestart
    failWait,    \* Runner.failWait, in minutes
    baseTick,    \* Runner.baseTick, in milliseconds
    stopCh,      \* Runner.stopCh is closed
    runPc,       \* Runner.Run: position of the loop
    runLocal,    \* Runner.Run: locals tick, auto, wait of the running iteration
    runFetch,    \* Runner.Run: locals b, err of the running iteration
    timerFired,  \* sleepOrStop: the timer of the running sleep has fired
    trail,       \* history: what the running iteration of Runner.Run did so far
    afterStop,   \* history: calls of Core.OnBlock begun after Stop
    stopPc,      \* per thread calling Runner.Stop: its position inside Stop
    closes,      \* history: how many times close(r.stopCh) was executed
    stopPanic,   \* a close of the closed stopCh has panicked
    fcfg,        \* AnkrRestFetcher.cfg : Enabled, BaseRate, MaxRate
    limBase,     \* Limiter.baseRate, tokens per second
    limMax,      \* Limiter.maxRate
    limTokens,   \* Limiter.tokens, in units of 1/TicksPerSec token
    limElapsed,  \* time since Limiter.lastRefill, in ticks, as far as it matters
    limRet,      \* the last thing that happened to the Limiter: the call, what it
                 \*   found and what it returned
    fetchOut     \* the last FetchLatest call: the fetcher, the response it got if it
                 \*   issued a request, and what it returned

mgrVars  == <<cfgs, rts, order>>
histVars == <<out, lastCall, hist, gateOpen, dirty, pend, due, snap, span, stopped>>
ringVars == <<ringItems, ringIndex, ringRet, admitted>>
hubVars  == <<clients, closed, hconns, hi, failed, wlog>>
coreOwn  == <<judgeRule, lastHeight, lastHash, lastTime, lastHeightNum,
              rpc, rblk, rstate, rsigs, hubSent, radmRule, spc, srule, switched, drove>>
coreVars == <<coreOwn, hubVars>>
dispVars == <<sources, lastSeen, fetchRet>>
gapVars  == <<majorIncidents, coreRet>>
runVars  == <<autoRestart, failWait, baseTick, stopCh, runPc, runLocal, runFetch,
              timerFired, trail, afterStop>>
limVars  == <<limBase, limMax, limTokens, limElapsed, limRet>>
srcVars  == <<fcfg, limVars, fetchOut>>
stopVars == <<stopPc, closes, stopPanic>>
goVars   == <<faPc, faSrcs, ch, chClosed, gor, closerPc, faRet>>
pipeVars == <<judgeRet, dispVars, gapVars, runVars, srcVars, stopVars, goVars>>
vars     == <<mgrVars, histVars, ringVars, coreVars, pipeVars>>

----------------------------------------------------------------------------
(* Bounds *)

MaxThreshold == 2
MaxOffset    == 3
MaxHashLen   == 2
MaxIncidents == 2
\* capacity given to NewRingBuffer (the program passes 50)
RingSize     == 2
MaxRate      == 2
TicksPerSec  == 2

----------------------------------------------------------------------------
(* judge.Result *)

ON  == "ON"
OFF == "OFF"
Results == {ON, OFF}

(* machine ids used by the inputs *)
MachineIDs == {"m1", "m2"}

Min(a, b) == IF a < b THEN a ELSE b
Max(a, b) == IF a > b THEN a ELSE b

LastN(s, n) == IF Len(s) <= n THEN s ELSE SubSeq(s, Len(s) - n + 1, Len(s))

----------------------------------------------------------------------------
(* machine.Runtime *)

ZeroRuntime ==
    [Counter |-> 0, WaitingReverse |-> FALSE, HitPending |-> FALSE, HitCountdown |-> 0,
     LastTriggerHeight |-> <<>>, LastTriggerHash |-> <<>>, LastTriggerTime |-> 0]

ResetRuntime ==
    [Counter |-> 0, WaitingReverse |-> TRUE, HitPending |-> FALSE, HitCountdown |-> 0,
     LastTriggerHeight |-> <<>>, LastTriggerHash |-> <<>>, LastTriggerTime |-> 0]

(* the zero machine.Config a Go map lookup yields for a missing id *)
ZeroConfig(id) ==
    [ID |-> id, Enabled |-> FALSE, TriggerState |-> "", Threshold |-> 0,
     HitEnabled |-> FALSE, HitExpect |-> "", HitOffset |-> 0]

reverse(s) == IF s = ON THEN OFF ELSE ON

----------------------------------------------------------------------------
(* Manager.Upsert, Delete, StopAll, ResetAll, ResetOne as functions of the maps *)

(* the defaults of Upsert, with a hitOffset below 1 left as given *)
NormalizeConfigKeepsOffset(c) ==
    [c EXCEPT !.TriggerState = IF @ # ON /\ @ # OFF THEN ON ELSE @,
              !.Threshold    = IF @ < 1 THEN 1 ELSE @,
              !.HitExpect    = IF @ # ON /\ @ # OFF THEN ON ELSE @]

(* the defaults Upsert puts in place of values out of range *)
NormalizeConfig(c) ==
    [c EXCEPT !.TriggerState = IF @ # ON /\ @ # OFF THEN ON ELSE @,
              !.Threshold    = IF @ < 1 THEN 1 ELSE @,
              !.HitExpect    = IF @ # ON /\ @ # OFF THEN ON ELSE @,
              !.HitOffset    = IF @ < 1 THEN 1 ELSE @]

UpsertCfgs(cs, c) ==
    [id \in (DOMAIN cs) \cup {c.ID} |-> IF id = c.ID THEN NormalizeConfig(c) ELSE cs[id]]

UpsertOrder(cs, ord, c) ==
    IF c.ID \in DOMAIN cs THEN ord ELSE Append(ord, c.ID)

UpsertRts(rs, c) ==
    [id \in (DOMAIN rs) \cup {c.ID} |-> IF id \in DOMAIN rs THEN rs[id] ELSE ZeroRuntime]

ResetAllRts(rs) == [id \in DOMAIN rs |-> ResetRuntime]

(* ResetOne replacing every runtime *)
ResetOneRtsEvery(rs, id) ==
    [x \in (DOMAIN rs) \cup {id} |-> ResetRuntime]

ResetOneRts(rs, id) ==
    [x \in (DOMAIN rs) \cup {id} |-> IF x = id THEN ResetRuntime ELSE rs[x]]

(* StopAll leaving the configs as they are *)
StopAllCfgsKeepsEnabled(cs) == cs

StopAllCfgs(cs) == [id \in DOMAIN cs |-> [cs[id] EXCEPT !.Enabled = FALSE]]

DeleteFrom(f, id) == [x \in (DOMAIN f) \ {id} |-> f[x]]

DeleteOrder(ord, id) == SelectSeq(ord, LAMBDA x : x # id)

RECURSIVE UpsertAll(_, _)
UpsertAll(m, cfgList) ==
    IF cfgList = <<>> THEN m
    ELSE LET c == Head(cfgList) IN
         UpsertAll([cfgs  |-> UpsertCfgs(m.cfgs, c),
                    rts   |-> UpsertRts(m.rts, c),
                    order |-> UpsertOrder(m.cfgs, m.order, c)],
                   Tail(cfgList))

NewManager(cfgList) ==
    LET m == UpsertAll([cfgs |-> <<>>, rts |-> <<>>, order |-> <<>>], cfgList)
    IN  [m EXCEPT !.rts = ResetAllRts(m.rts)]

----------------------------------------------------------------------------
(* Manager.OnBlock, one machine of the loop *)

TriggerSignal(id, state, height, hash, unixSec) ==
    [Type |-> "TRIGGER", MachineID |-> id, State |-> state,
     Height |-> height, Hash |-> hash, Time |-> unixSec,
     BaseHeight |-> <<>>, BaseHash |-> <<>>, Offset |-> 0]

HitSignal(id, cfg, rt, state, height, hash, unixSec) ==
    [Type |-> "HIT", MachineID |-> id, State |-> state,
     Height |-> height, Hash |-> hash, Time |-> unixSec,
     BaseHeight |-> rt.LastTriggerHeight, BaseHash |-> rt.LastTriggerHash,
     Offset |-> cfg.HitOffset]

(* HIT countdown, with the pending HIT cleared only when a HIT is emitted *)
HitStepKeepsPending(id, cfg, rt, state, height, hash, unixSec) ==
    IF cfg.HitEnabled /\ rt.HitPending
    THEN LET cd == rt.HitCountdown - 1 IN
         IF cd <= 0 /\ state = cfg.HitExpect
         THEN [rt   |-> [rt EXCEPT !.HitPending = FALSE, !.HitCountdown = 0],
               sigs |-> <<HitSignal(id, cfg, rt, state, height, hash, unixSec)>>]
         ELSE [rt |-> [rt EXCEPT !.HitCountdown = cd], sigs |-> <<>>]
    ELSE [rt |-> rt, sigs |-> <<>>]

(* HIT countdown *)
HitStep(id, cfg, rt, state, height, hash, unixSec) ==
    IF cfg.HitEnabled /\ rt.HitPending
    THEN LET cd == rt.HitCountdown - 1 IN
         IF cd <= 0
         THEN [rt   |-> [rt EXCEPT !.HitPending = FALSE, !.HitCountdown = 0],
               sigs |-> IF state = cfg.HitExpect
                        THEN <<HitSignal(id, cfg, rt, state, height, hash, unixSec)>>
                        ELSE <<>>]
         ELSE [rt |-> [rt EXCEPT !.HitCountdown = cd], sigs |-> <<>>]
    ELSE [rt |-> rt, sigs |-> <<>>]

(* the gate cleared by whatever block comes next *)
GateStepAnyBlock(cfg, rt, state) ==
    [rt EXCEPT !.WaitingReverse = FALSE, !.Counter = 0]

(* waitingReverse gate: the runtime after a block seen while the gate is set *)
GateStep(cfg, rt, state) ==
    IF state = reverse(cfg.TriggerState)
    THEN [rt EXCEPT !.WaitingReverse = FALSE, !.Counter = 0]
    ELSE rt

(* counting, with a mismatching block not clearing the counter *)
CountStepNoReset(cfg, rt, state) ==
    IF state = cfg.TriggerState THEN rt.Counter + 1 ELSE rt.Counter

(* counting *)
CountStep(cfg, rt, state) ==
    IF state = cfg.TriggerState THEN rt.Counter + 1 ELSE 0

(* the threshold test, passing only above the threshold *)
TriggerFiresAbove(cfg, rt) == rt.Counter > cfg.Threshold

(* if rt.Counter >= cfg.Threshold *)
TriggerFires(cfg, rt) == rt.Counter >= cfg.Threshold

(* the runtime after a TRIGGER, with the gate left open *)
AfterTriggerNoGate(cfg, rt, height, hash, unixSec) ==
    [rt EXCEPT !.LastTriggerHeight = height,
               !.LastTriggerHash   = hash,
               !.LastTriggerTime   = unixSec,
               !.Counter           = 0,
               !.HitPending        = cfg.HitEnabled,
               !.HitCountdown      = IF cfg.HitEnabled THEN Max(1, cfg.HitOffset) ELSE 0]

(* the runtime after a TRIGGER, with a countdown that is running left as it is *)
AfterTriggerKeepsCountdown(cfg, rt, height, hash, unixSec) ==
    [rt EXCEPT !.LastTriggerHeight = height,
               !.LastTriggerHash   = hash,
               !.LastTriggerTime   = unixSec,
               !.Counter           = 0,
               !.WaitingReverse    = TRUE,
               !.HitPending        = cfg.HitEnabled,
               !.HitCountdown      = IF ~cfg.HitEnabled THEN 0
                                     ELSE IF rt.HitPending THEN rt.HitCountdown
                                     ELSE Max(1, cfg.HitOffset)]

(* the runtime after a TRIGGER, with the counter left at the threshold *)
AfterTriggerKeepsCounter(cfg, rt, height, hash, unixSec) ==
    [rt EXCEPT !.LastTriggerHeight = height,
               !.LastTriggerHash   = hash,
               !.LastTriggerTime   = unixSec,
               !.WaitingReverse    = TRUE,
               !.HitPending        = cfg.HitEnabled,
               !.HitCountdown      = IF cfg.HitEnabled THEN Max(1, cfg.HitOffset) ELSE 0]

(* the runtime after a TRIGGER: base recorded, counter cleared, gate set, HIT armed *)
AfterTrigger(cfg, rt, height, hash, unixSec) ==
    [rt EXCEPT !.LastTriggerHeight = height,
               !.LastTriggerHash   = hash,
               !.LastTriggerTime   = unixSec,
               !.Counter           = 0,
               !.WaitingReverse    = TRUE,
               !.HitPending        = cfg.HitEnabled,
               !.HitCountdown      = IF cfg.HitEnabled THEN Max(1, cfg.HitOffset) ELSE 0]

(* the TRIGGER put in front of what the call has collected for the machine *)
EmitTriggerFirst(sigs, sig) == <<sig>> \o sigs

(* out = append(out, Signal{Type: SignalTrigger, ...}) *)
EmitTrigger(sigs, sig) == Append(sigs, sig)

(* one machine of the loop, with the HIT countdown of a disabled machine still running *)
MachineStepTicksDisabled(id, cfg, rt0, state, height, hash, unixSec) ==
    LET h   == HitStep(id, cfg, rt0, state, height, hash, unixSec)
        rt1 == h.rt
    IN  IF ~cfg.Enabled THEN h
        ELSE IF rt1.WaitingReverse
        THEN [rt |-> GateStep(cfg, rt1, state), sigs |-> h.sigs]
        ELSE LET rt2 == [rt1 EXCEPT !.Counter = CountStep(cfg, rt1, state)] IN
             IF TriggerFires(cfg, rt2)
             THEN [rt   |-> AfterTrigger(cfg, rt2, height, hash, unixSec),
                   sigs |-> Append(h.sigs, TriggerSignal(id, state, height, hash, unixSec))]
             ELSE [rt |-> rt2, sigs |-> h.sigs]

(* one machine of the loop: disabled switch, HIT countdown, gate, counting, TRIGGER *)
MachineStep(id, cfg, rt0, state, height, hash, unixSec) ==
    IF ~cfg.Enabled THEN [rt |-> rt0, sigs |-> <<>>]
    ELSE
      LET h   == HitStep(id, cfg, rt0, state, height, hash, unixSec)
          rt1 == h.rt
      IN  IF rt1.WaitingReverse
          THEN [rt |-> GateStep(cfg, rt1, state), sigs |-> h.sigs]
          ELSE LET rt2 == [rt1 EXCEPT !.Counter = CountStep(cfg, rt1, state)] IN
               IF TriggerFires(cfg, rt2)
               THEN [rt   |-> AfterTrigger(cfg, rt2, height, hash, unixSec),
                     sigs |-> EmitTrigger(h.sigs,
                                          TriggerSignal(id, state, height, hash, unixSec))]
               ELSE [rt |-> rt2, sigs |-> h.sigs]

CfgOf(cs, id) == IF id \in DOMAIN cs THEN cs[id] ELSE ZeroConfig(id)
RtOf(rs, id)  == IF id \in DOMAIN rs THEN rs[id] ELSE ZeroRuntime

StepOf(cs, rs, id, state, height, hash, unixSec) ==
    MachineStep(id, CfgOf(cs, id), RtOf(rs, id), state, height, hash, unixSec)

InOrder(ord, id) == \E i \in 1..Len(ord) : ord[i] = id

RECURSIVE CollectSignals(_, _, _, _, _, _, _)
CollectSignals(cs, rs, ord, state, height, hash, unixSec) ==
    IF ord = <<>> THEN <<>>
    ELSE StepOf(cs, rs, Head(ord), state, height, hash, unixSec).sigs
         \o CollectSignals(cs, rs, Tail(ord), state, height, hash, unixSec)

(* the runtimes after the loop; a machine of the order list without runtime gets one *)
OnBlockRts(cs, rs, ord, state, height, hash, unixSec) ==
    [id \in (DOMAIN rs) \cup {ord[i] : i \in 1..Len(ord)} |->
        IF InOrder(ord, id)
        THEN StepOf(cs, rs, id, state, height, hash, unixSec).rt
        ELSE rs[id]]

----------------------------------------------------------------------------
(* helpers over signal lists *)

HasSignal(sigs, typ, id) ==
    \E i \in 1..Len(sigs) : sigs[i].Type = typ /\ sigs[i].MachineID = id

CountSignals(sigs, typ, id) ==
    Cardinality({i \in 1..Len(sigs) : sigs[i].Type = typ /\ sigs[i].MachineID = id})
----------------------------------------------------------------------------
(* block.RingBuffer *)

(* Go string concatenation Height + ":" + Hash *)
makeKey(b) == b.Height \o <<":">> \o b.Hash

(* the membership test of Push, comparing with the newest item only *)
RingHasNewestOnly(items, index, key) ==
    items # <<>> /\ makeKey(items[Len(items)]) = key

(* the membership test of Push, never finding the key *)
RingHasNever(items, index, key) == FALSE

(* the membership test of Exists and Push: a lookup in the index map *)
RingHas(items, index, key) == key \in index

(* items after an admitting Push, evicting the newest item of a full ring *)
PushItemsEvictsNewest(items, size, b) ==
    IF Len(items) >= size
    THEN Append(SubSeq(items, 1, Len(items) - 1), b)
    ELSE Append(items, b)

(* items after an admitting Push: the oldest item leaves a full ring *)
PushItems(items, size, b) ==
    IF Len(items) >= size THEN Append(Tail(items), b) ELSE Append(items, b)

(* index after an admitting Push, the evicted item's key left in place *)
PushIndexKeepsOld(items, index, size, b) == index \cup {makeKey(b)}

(* index after an admitting Push *)
PushIndex(items, index, size, b) ==
    (IF Len(items) >= size THEN index \ {makeKey(items[1])} ELSE index) \cup {makeKey(b)}

RECURSIVE ReverseSeq(_)
ReverseSeq(s) == IF s = <<>> THEN <<>> ELSE Append(ReverseSeq(Tail(s)), Head(s))

(* what List returns: a copy of items, newest first *)
ListItems(items) == ReverseSeq(items)

(* history: the last RingSize + 2 admitted blocks *)
AdmitLen == RingSize + 2

RingInit ==
    /\ ringItems = <<>>
    /\ ringIndex = {}
    /\ ringRet = [op |-> "NewRingBuffer"]
    /\ admitted = <<>>

(* Push(b), under RingBuffer.mu *)
Push(b) ==
    IF RingHas(ringItems, ringIndex, makeKey(b))
    THEN /\ ringRet' = [op |-> "Push", arg |-> b, ok |-> FALSE]
         /\ UNCHANGED <<ringItems, ringIndex, admitted>>
    ELSE /\ ringItems' = PushItems(ringItems, RingSize, b)
         /\ ringIndex' = PushIndex(ringItems, ringIndex, RingSize, b)
         /\ ringRet' = [op |-> "Push", arg |-> b, ok |-> TRUE]
         /\ admitted' = LastN(Append(admitted, b), AdmitLen)

(* Exists(b), under RingBuffer.mu *)
Exists(b) ==
    /\ ringRet' = [op |-> "Exists", arg |-> b,
                   ok |-> RingHas(ringItems, ringIndex, makeKey(b))]
    /\ UNCHANGED <<ringItems, ringIndex, admitted>>

(* List(), under RingBuffer.mu *)
List ==
    /\ ringRet' = [op |-> "List", list |-> ListItems(ringItems)]
    /\ UNCHANGED <<ringItems, ringIndex, admitted>>

(* Reset(): clear the ring (called by Core.SwitchJudgeRule) *)
RingReset ==
    /\ ringItems' = <<>>
    /\ ringIndex' = {}
    /\ ringRet' = [op |-> "Reset"]
    /\ admitted' = <<>>

----------------------------------------------------------------------------
(* judge.Judge *)

Lucky == "lucky"
Big   == "big"
Odd   == "odd"
Rules == {Lucky, Big, Odd}

DigitChars == <<"0", "1", "2", "3", "4", "5", "6", "7", "8", "9">>

(* unicode.IsDigit on the characters of the inputs *)
IsDigit(c) == \E i \in 1..Len(DigitChars) : DigitChars[i] = c

DigitValue(c) == (CHOOSE i \in 1..Len(DigitChars) : DigitChars[i] = c) - 1

(* unicode.IsLetter on the characters of the inputs *)
IsLetter(c) ==
    c \in {"a", "b", "c", "d", "e", "f", "g", "x", "z", "A", "B", "C", "D", "E", "F", "G"}

IsSpace(c) == c \in {" "}

RECURSIVE TrimLeft(_)
TrimLeft(h) == IF h # <<>> /\ IsSpace(Head(h)) THEN TrimLeft(Tail(h)) ELSE h

RECURSIVE TrimRight(_)
TrimRight(h) ==
    IF h # <<>> /\ IsSpace(h[Len(h)]) THEN TrimRight(SubSeq(h, 1, Len(h) - 1)) ELSE h

(* strings.TrimSpace *)
TrimSpace(h) == TrimRight(TrimLeft(h))

decideLucky(hash) ==
    LET h == TrimSpace(hash) IN
    IF Len(h) < 2 THEN OFF
    ELSE LET a == h[Len(h) - 1]
             b == h[Len(h)]
         IN  IF (IsLetter(a) /\ IsDigit(b)) \/ (IsDigit(a) /\ IsLetter(b)) THEN ON ELSE OFF

(* the scan started from the front: index of the first decimal digit, 0 if none *)
FirstDigitIndex(hash) ==
    LET idx == {i \in 1..Len(hash) : IsDigit(hash[i])}
    IN  IF idx = {} THEN 0 ELSE CHOOSE i \in idx : \A j \in idx : i <= j

(* index of the last decimal digit of hash, 0 if there is none *)
LastDigitIndex(hash) ==
    LET idx == {i \in 1..Len(hash) : IsDigit(hash[i])}
    IN  IF idx = {} THEN 0 ELSE CHOOSE i \in idx : \A j \in idx : j <= i

decideBig(hash) ==
    LET i == LastDigitIndex(hash) IN
    IF i = 0 THEN OFF
    ELSE IF DigitValue(hash[i]) >= 0 /\ DigitValue(hash[i]) <= 4 THEN ON ELSE OFF

decideOdd(hash) ==
    LET i == LastDigitIndex(hash) IN
    IF i = 0 THEN OFF
    ELSE IF DigitValue(hash[i]) % 2 = 0 THEN ON ELSE OFF

(* Judge.Decide with the rule it read under Judge.mu *)
Decide(rule, hash) ==
    IF rule = Big THEN decideBig(hash)
    ELSE IF rule = Odd THEN decideOdd(hash)
    ELSE decideLucky(hash)

(* NewJudge(rule) *)
NewJudge(rule) == IF rule = "" THEN Lucky ELSE rule

JudgeInit == judgeRet = [op |-> "NewJudge"]

(* Judge.SetRule(rule), under Judge.mu *)
SetRule(rule) ==
    /\ judgeRule' = rule
    /\ judgeRet' = [op |-> "SetRule", rule |-> rule]

(* Judge.Decide(hash): the rule is read under Judge.mu, then applied *)
JudgeDecide(hash) ==
    /\ judgeRet' = [op |-> "Decide", rule |-> judgeRule, hash |-> hash,
                    res |-> Decide(judgeRule, hash)]
    /\ UNCHANGED judgeRule

----------------------------------------------------------------------------
(* source.Dispatcher *)

DeadlineExceeded == "context.DeadlineExceeded"

NoErr == "nil"

Nil == [nil |-> TRUE]

(* key := res.Block.Height + ":" + res.Block.Hash *)
blockKey(b) == b.Height \o <<":">> \o b.Hash

(* Dispatcher.isNew, finding every key new *)
isNewAlways(memo, from, key) == TRUE

(* Dispatcher.isNew *)
isNew(memo, from, key) == from \notin DOMAIN memo \/ memo[from] # key

(* Dispatcher.mark writing the key into the memo of every source *)
markEvery(memo, from, key) ==
    [id \in DOMAIN memo \cup {from} |-> key]

(* Dispatcher.mark *)
mark(memo, from, key) ==
    [id \in DOMAIN memo \cup {from} |-> IF id = from THEN key ELSE memo[id]]

(* the fetchers FetchAny starts a goroutine for: those whose Config().Enabled is set *)
Launched(srcs) == {i \in 1..Len(srcs) : srcs[i].Enabled}

(* the receive loop of FetchAny over the results arr[i..], in order of arrival *)
RECURSIVE ScanResults(_, _, _)
ScanResults(arr, i, memo) ==
    IF i > Len(arr) THEN [Block |-> Nil, Err |-> DeadlineExceeded, memo |-> memo]
    ELSE IF arr[i].Err # NoErr \/ arr[i].Block = Nil THEN ScanResults(arr, i + 1, memo)
    ELSE IF isNew(memo, arr[i].From, blockKey(arr[i].Block))
         THEN [Block |-> arr[i].Block, Err |-> NoErr,
               memo |-> mark(memo, arr[i].From, blockKey(arr[i].Block))]
         ELSE ScanResults(arr, i + 1, memo)

(* no FetchAny call has been made *)
GoInit ==
    /\ faPc = "idle"
    /\ faSrcs = <<>>
    /\ ch = <<>>
    /\ chClosed = FALSE
    /\ gor = <<>>
    /\ closerPc = "done"
    /\ faRet = [op |-> "none"]

DispatcherInit ==
    /\ sources = <<>>
    /\ lastSeen = <<>>
    /\ fetchRet = [op |-> "NewDispatcher"]
    /\ GoInit

(* Dispatcher.SetSources(srcs), under Dispatcher.mu *)
SetSources(srcs) ==
    /\ sources' = srcs
    /\ fetchRet' = [op |-> "SetSources"]
    /\ UNCHANGED lastSeen

(* Dispatcher.FetchAny(ctx) when the launched fetchers deliver the results arr,
   in this order, into the channel *)
FetchAny(arr) ==
    LET ret == ScanResults(arr, 1, lastSeen) IN
    /\ lastSeen' = ret.memo
    /\ fetchRet' = [op |-> "FetchAny", arr |-> arr, memo |-> lastSeen, srcs |-> sources,
                    Block |-> ret.Block, Err |-> ret.Err]
    /\ UNCHANGED sources

----------------------------------------------------------------------------
(* Dispatcher.FetchAny goroutine by goroutine: the caller, one goroutine per enabled
   fetcher, and the goroutine that closes the channel.  One call is followed through at
   a time: the channel and the WaitGroup are locals of the call, so the goroutines of
   one call meet those of no other. *)

(* a channel with room for one result *)
ChanCapOne(srcs) == 1

(* ch := make(chan Result, len(srcs)) *)
ChanCap(srcs) == Len(srcs)

NoResult == [Block |-> Nil, Err |-> NoErr, From |-> ""]

(* the goroutines of the call have all ended *)
GoroutinesEnded ==
    /\ \A i \in 1..Len(gor) : gor[i].pc \in {"none", "done"}
    /\ closerPc = "done"

(* FetchAny up to its receive loop: srcs copied under RLock, the channel made, a
   goroutine started for every enabled fetcher, and the closing goroutine started *)
FetchAnyBegin ==
    /\ faPc \in {"idle", "done"}
    /\ GoroutinesEnded
    /\ faSrcs' = sources
    /\ ch' = <<>>
    /\ chClosed' = FALSE
    /\ gor' = [i \in 1..Len(sources) |->
                 [pc |-> IF sources[i].Enabled THEN "fetch" ELSE "none",
                  res |-> NoResult, late |-> FALSE]]
    /\ closerPc' = "wait"
    /\ faPc' = "recv"
    /\ faRet' = [op |-> "FetchAny", memo |-> lastSeen, Block |-> Nil, Err |-> NoErr,
                 From |-> ""]
    /\ UNCHANGED <<sources, lastSeen, fetchRet>>

(* goroutine of fetcher i: f.FetchLatest(ctx) returns r *)
GoFetchReturn(i, r) ==
    /\ i \in 1..Len(gor)
    /\ gor[i].pc = "fetch"
    /\ r.From = faSrcs[i].ID
    /\ gor' = [gor EXCEPT ![i].pc = "send", ![i].res = r]
    /\ UNCHANGED <<faPc, faSrcs, ch, chClosed, closerPc, faRet, sources, lastSeen, fetchRet>>

(* goroutine of fetcher i: ch <- Result{...}, possible while the buffer has room; then
   wg.Done() and the goroutine ends *)
GoSend(i) ==
    /\ i \in 1..Len(gor)
    /\ gor[i].pc = "send"
    /\ Len(ch) < ChanCap(faSrcs)
    /\ ch' = Append(ch, gor[i].res)
    /\ gor' = [gor EXCEPT ![i].pc = "done", ![i].late = (faPc = "done")]
    /\ UNCHANGED <<faPc, faSrcs, chClosed, closerPc, faRet, sources, lastSeen, fetchRet>>

(* the closing goroutine: wg.Wait() returns when every fetcher goroutine has ended,
   then close(ch) *)
CloserClose ==
    /\ closerPc = "wait"
    /\ \A i \in 1..Len(gor) : gor[i].pc \in {"none", "done"}
    /\ chClosed' = TRUE
    /\ closerPc' = "done"
    /\ UNCHANGED <<faPc, faSrcs, ch, gor, faRet, sources, lastSeen, fetchRet>>

(* FetchAny: one turn of `for res := range ch` with a result in the buffer *)
FetchAnyRecv ==
    /\ faPc = "recv"
    /\ ch # <<>>
    /\ ch' = Tail(ch)
    /\ LET res == Head(ch) IN
       IF res.Err # NoErr \/ res.Block = Nil
       THEN UNCHANGED <<faPc, faRet, lastSeen>>
       ELSE IF isNew(lastSeen, res.From, blockKey(res.Block))
            THEN /\ lastSeen' = mark(lastSeen, res.From, blockKey(res.Block))
                 /\ faRet' = [faRet EXCEPT !.Block = res.Block, !.From = res.From]
                 /\ faPc' = "done"
            ELSE UNCHANGED <<faPc, faRet, lastSeen>>
    /\ UNCHANGED <<faSrcs, chClosed, gor, closerPc, sources, fetchRet>>

(* FetchAny: the range loop ends on the closed and drained channel;
   return nil, context.DeadlineExceeded *)
FetchAnyRecvClosed ==
    /\ faPc = "recv"
    /\ ch = <<>>
    /\ chClosed
    /\ faRet' = [faRet EXCEPT !.Err = DeadlineExceeded]
    /\ faPc' = "done"
    /\ UNCHANGED <<faSrcs, ch, chClosed, gor, closerPc, sources, lastSeen, fetchRet>>

----------------------------------------------------------------------------
(* inputs *)

(* characters of the hashes handed to Decide: hex letters, a hex letter in upper case,
   a letter that is no hex digit, digits below and above 5 and of both parities, a space *)
HashChars == {"a", "f", "A", "g", "3", "4", "5", " "}

RECURSIVE StringsUpTo(_)
StringsUpTo(n) ==
    IF n = 0 THEN {<<>>}
    ELSE LET shorter == StringsUpTo(n - 1)
         IN  shorter \cup {Append(h, c) : h \in {x \in shorter : Len(x) = n - 1},
                                          c \in HashChars}

Hashes == StringsUpTo(MaxHashLen)

(* the fetchers handed to SetSources: two sources in either order, each enabled or not,
   or one source alone *)
SourceIDs == {"s1", "s2"}

SourceLists ==
    {<<>>}
    \cup {<<[ID |-> a, Enabled |-> e]>> : a \in SourceIDs, e \in BOOLEAN}
    \cup {l \in {<<[ID |-> a, Enabled |-> e], [ID |-> b, Enabled |-> f]>> :
                      a \in SourceIDs, b \in SourceIDs, e \in BOOLEAN, f \in BOOLEAN} :
             l[1].ID # l[2].ID}

(* the fetchers handed to SetSources where FetchAny is followed goroutine by goroutine:
   none, or three sources, each enabled or not *)
GoLists ==
    {<<>>}
    \cup {<<[ID |-> "s1", Enabled |-> e], [ID |-> "s2", Enabled |-> f],
            [ID |-> "s3", Enabled |-> g]>> : e \in BOOLEAN, f \in BOOLEAN, g \in BOOLEAN}

(* what FetchLatest of the fetcher `id` may return there: an error or the latest block *)
GoResults(id) ==
    {[Block |-> Nil, Err |-> "error", From |-> id],
     [Block |-> [Height |-> <<"7">>, Hash |-> <<"a", "3">>, TimeUnix |-> 1],
      Err |-> NoErr, From |-> id]}

(* blocks a fetcher may return *)
FBlocks ==
    {[Height |-> <<"7">>, Hash |-> <<"a", "3">>, TimeUnix |-> 1],
     [Height |-> <<"9">>, Hash |-> <<"4", "4">>, TimeUnix |-> 2]}

(* what FetchLatest of the fetcher `id` may send: an error, a block, or neither *)
ResultsOf(id) ==
    {[Block |-> Nil, Err |-> "error", From |-> id], [Block |-> Nil, Err |-> NoErr, From |-> id]}
    \cup {[Block |-> b, Err |-> NoErr, From |-> id] : b \in FBlocks}

(* every way the launched fetchers of srcs can fill the channel: one result each,
   in any order of arrival *)
Arrivals(srcs) ==
    LET L == Launched(srcs)
        n == Cardinality(L)
    IN  {arr \in [1..n -> UNION {ResultsOf(srcs[i].ID) : i \in L}] :
            \A i \in L : Cardinality({k \in 1..n : arr[k].From = srcs[i].ID}) = 1}

(* blocks handed to the OnBlock of the Core the Runner drives: consecutive heights, a
   height after a gap, a height that is no number, and blocks without height or hash *)
PBlocks ==
    {[Height |-> <<"5">>, Hash |-> <<"a", "3">>, TimeUnix |-> 1],
     [Height |-> <<"6">>, Hash |-> <<"4", "4">>, TimeUnix |-> 1],
     [Height |-> <<"9">>, Hash |-> <<"a", "3">>, TimeUnix |-> 1],
     [Height |-> <<"x">>, Hash |-> <<"4", "4">>, TimeUnix |-> 1],
     [Height |-> <<>>, Hash |-> <<"a", "3">>, TimeUnix |-> 1],
     [Height |-> <<"5">>, Hash |-> <<>>, TimeUnix |-> 1]}

(* arguments of UpdatePolicy and UpdateBaseTick: a switch to MANUAL, and values below
   the minimum that the Runner raises *)
PolicyInputs == {[auto |-> FALSE, waitMinutes |-> 0], [auto |-> TRUE, waitMinutes |-> 0]}

TickInputs == {100}

(* rules handed to SetRule: the three known ones and a string that names none *)
RuleInputs == Rules \cup {"none"}

(* configs the API may upsert for machine m1: a base config, every change of one
   field of it, and one config that Upsert has to normalise *)
BaseConfig ==
    [ID |-> "m1", Enabled |-> TRUE, TriggerState |-> ON, Threshold |-> MaxThreshold,
     HitEnabled |-> TRUE, HitExpect |-> ON, HitOffset |-> MaxOffset]

M1Inputs ==
    {BaseConfig,
     [BaseConfig EXCEPT !.Enabled = FALSE],
     [BaseConfig EXCEPT !.TriggerState = OFF],
     [BaseConfig EXCEPT !.Threshold = 1],
     [BaseConfig EXCEPT !.HitEnabled = FALSE],
     [BaseConfig EXCEPT !.HitExpect = OFF],
     [BaseConfig EXCEPT !.HitOffset = 1],
     [BaseConfig EXCEPT !.TriggerState = "", !.Threshold = 0,
                        !.HitExpect = "", !.HitOffset = 0]}

(* configs for a second machine m2 *)
M2Inputs ==
    {[ID |-> "m2", Enabled |-> e, TriggerState |-> OFF, Threshold |-> 1,
      HitEnabled |-> TRUE, HitExpect |-> OFF, HitOffset |-> 1] : e \in BOOLEAN}

(* configs upserted into a fleet of two machines: m1 triggering on OFF, enabled or not,
   m1 with every field that Upsert normalises out of range, and the configs of m2 *)
FleetInputs ==
    {[BaseConfig EXCEPT !.Threshold = 1, !.HitOffset = 1, !.TriggerState = OFF,
                        !.Enabled = e] : e \in BOOLEAN}
    \cup {[BaseConfig EXCEPT !.TriggerState = "", !.Threshold = 0,
                             !.HitExpect = "", !.HitOffset = 0]}
    \cup M2Inputs

(* the config lists NewManager may be given for the fleet: at most one config per id *)
FleetLists ==
    {<<>>} \cup {<<c>> : c \in FleetInputs}
    \cup {l \in {<<a, b>> : a \in FleetInputs, b \in FleetInputs} : l[1].ID # l[2].ID}

(* configs of the two machines behind the hub: both enabled, both triggering on OFF
   after one block, m1 expecting ON and m2 expecting OFF on the block after *)
HubInputs ==
    {[BaseConfig EXCEPT !.Threshold = 1, !.HitOffset = 1, !.TriggerState = OFF]}
    \cup {c \in M2Inputs : c.Enabled}

(* the config lists NewManager may be given there *)
HubLists ==
    {<<>>} \cup {<<c>> : c \in HubInputs}
    \cup {l \in {<<a, b>> : a \in HubInputs, b \in HubInputs} : l[1].ID # l[2].ID}

(* blocks handed to Core.OnBlock there: two heights, a hash classified ON and one
   classified OFF by the rule in force *)
HubBlocks ==
    [Height : {<<"7">>, <<"8">>}, Hash : {<<"a", "3">>, <<"4", "4">>}, TimeUnix : {1}]

(* configs of machine m1 in the Core specification *)
CoreInputs ==
    {[BaseConfig EXCEPT !.Threshold = 1, !.HitOffset = 1],
     [BaseConfig EXCEPT !.Threshold = 1, !.HitOffset = 1, !.TriggerState = OFF]}

(* blocks pushed into the ring: four keys, one of them with two timestamps *)
RBlocks ==
    [Height : {<<"7">>, <<"8">>}, Hash : {<<"a", "3">>, <<"4", "4">>}, TimeUnix : {1}]
    \cup {[Height |-> <<"7">>, Hash |-> <<"a", "3">>, TimeUnix |-> 2]}

(* blocks the Runner hands to Core.OnBlock *)
CBlocks ==
    {[Height |-> <<"7">>, Hash |-> <<"a", "3">>, TimeUnix |-> 1],
     [Height |-> <<"9">>, Hash |-> <<"4", "4">>, TimeUnix |-> 2]}

(* blocks handed to Core.OnBlock one call after the other, two of them incomplete *)
EBlocks ==
    CBlocks \cup {[Height |-> <<>>, Hash |-> <<"a", "3">>, TimeUnix |-> 1],
                  [Height |-> <<"7">>, Hash |-> <<>>, TimeUnix |-> 1]}

(* blocks handed to Manager.OnBlock: height, hash, unix time *)
MBlocks ==
    {[Height |-> <<"7">>, Hash |-> <<"a", "3">>, TimeUnix |-> 1],
     [Height |-> <<"9">>, Hash |-> <<"4", "4">>, TimeUnix |-> 2]}

----------------------------------------------------------------------------
(* history bookkeeping (not program state) *)

HistLen == MaxThreshold

NoCall == [op |-> "other"]

NoSnap == [en |-> FALSE, expect |-> "", offset |-> 0, height |-> <<>>, hash |-> <<>>]

NoSpan == [on |-> FALSE, left |-> 0, rev |-> FALSE,
           prev |-> FALSE, prevLeft |-> 0, prevRev |-> FALSE]

(* the record of a machine that emitted no TRIGGER in the step *)
SpanKept(sp) == [sp EXCEPT !.prev = FALSE, !.prevLeft = 0, !.prevRev = FALSE]

HistInit ==
    /\ out = <<>>
    /\ lastCall = NoCall
    /\ hist = <<>>
    /\ gateOpen = [id \in MachineIDs |-> 0]
    /\ dirty = [id \in MachineIDs |-> FALSE]
    /\ pend = [id \in MachineIDs |-> {}]
    /\ due = [id \in MachineIDs |-> {}]
    /\ snap = [id \in MachineIDs |-> NoSnap]
    /\ span = [id \in MachineIDs |-> NoSpan]
    /\ stopped = {}

(* history after Manager.OnBlock(state, ...) returned sigs and left runtimes rs *)
HistOnBlock(sigs, rs, state, height, hash, unixSec) ==
    /\ out' = sigs
    /\ lastCall' = [op |-> "OnBlock", State |-> state, Height |-> height,
                    Hash |-> hash, Time |-> unixSec]
    /\ hist' = LastN(Append(hist, state), HistLen)
    /\ gateOpen' = [id \in MachineIDs |->
                      IF /\ InOrder(order, id)
                         /\ CfgOf(cfgs, id).Enabled
                         /\ ~RtOf(rts, id).WaitingReverse
                      THEN Min(HistLen, gateOpen[id] + 1) ELSE 0]
    /\ dirty' = [id \in MachineIDs |->
                   IF HasSignal(sigs, "TRIGGER", id) THEN dirty[id]
                   ELSE dirty[id] /\ RtOf(rs, id).Counter # 0]
    /\ due' = [id \in MachineIDs |-> {p.expect : p \in {q \in pend[id] : q.left = 1}}]
    /\ pend' = [id \in MachineIDs |->
                  {[left |-> p.left - 1, expect |-> p.expect] : p \in {q \in pend[id] : q.left > 1}}
                  \cup (IF HasSignal(sigs, "TRIGGER", id) /\ CfgOf(cfgs, id).HitEnabled
                        THEN {[left |-> CfgOf(cfgs, id).HitOffset,
                               expect |-> CfgOf(cfgs, id).HitExpect]}
                        ELSE {})]
    /\ snap' = [id \in MachineIDs |->
                  IF HasSignal(sigs, "TRIGGER", id)
                  THEN [en |-> CfgOf(cfgs, id).HitEnabled, expect |-> CfgOf(cfgs, id).HitExpect,
                        offset |-> CfgOf(cfgs, id).HitOffset, height |-> height, hash |-> hash]
                  ELSE IF RtOf(rs, id).HitPending \/ HasSignal(sigs, "HIT", id)
                       THEN snap[id] ELSE NoSnap]
    /\ span' = [id \in MachineIDs |->
                  IF HasSignal(sigs, "TRIGGER", id)
                  THEN [on |-> TRUE, left |-> CfgOf(cfgs, id).Threshold, rev |-> FALSE,
                        prev |-> span[id].on, prevLeft |-> span[id].left,
                        prevRev |-> span[id].rev]
                  ELSE IF span[id].on
                  THEN [SpanKept(span[id]) EXCEPT
                           !.left = Max(0, @ - 1),
                           !.rev  = @ \/ state = reverse(CfgOf(cfgs, id).TriggerState)]
                  ELSE NoSpan]
    /\ UNCHANGED stopped

(* history after the operation `call` that changes the configs of the ids in
   `changed` and leaves runtimes rs *)
HistConfig(call, changed, rs) ==
    /\ out' = <<>>
    /\ lastCall' = call
    /\ dirty' = [id \in MachineIDs |->
                   (dirty[id] \/ id \in changed) /\ RtOf(rs, id).Counter # 0]
    /\ due' = [id \in MachineIDs |-> {}]
    /\ snap' = [id \in MachineIDs |-> IF RtOf(rs, id).HitPending THEN snap[id] ELSE NoSnap]
    /\ span' = [id \in MachineIDs |-> IF id \in changed THEN NoSpan ELSE SpanKept(span[id])]
    /\ stopped' = IF call.op = "StopAll" THEN DOMAIN cfgs
                  ELSE IF call.op = "Upsert" /\ call.Config.Enabled
                       THEN stopped \ {call.Config.ID}
                       ELSE stopped
    /\ UNCHANGED <<hist, gateOpen, pend>>

(* history after Delete(gone): the machine and what was recorded about it are gone *)
HistDelete(gone) ==
    /\ out' = <<>>
    /\ lastCall' = [op |-> "Delete", ID |-> gone]
    /\ dirty' = [dirty EXCEPT ![gone] = FALSE]
    /\ gateOpen' = [gateOpen EXCEPT ![gone] = 0]
    /\ pend' = [pend EXCEPT ![gone] = {}]
    /\ due' = [id \in MachineIDs |-> {}]
    /\ snap' = [snap EXCEPT ![gone] = NoSnap]
    /\ span' = [id \in MachineIDs |-> IF id = gone THEN NoSpan ELSE SpanKept(span[id])]
    /\ stopped' = stopped \ {gone}
    /\ UNCHANGED hist

----------------------------------------------------------------------------
(* Manager operations (each runs under Manager.mu, hence one step) *)

Upsert(c) ==
    /\ cfgs' = UpsertCfgs(cfgs, c)
    /\ order' = UpsertOrder(cfgs, order, c)
    /\ rts' = UpsertRts(rts, c)
    /\ HistConfig([op |-> "Upsert", Config |-> c],
                  IF c.ID \in DOMAIN cfgs /\ cfgs[c.ID] = NormalizeConfig(c) THEN {} ELSE {c.ID},
                  rts')

Delete(id) ==
    /\ cfgs' = DeleteFrom(cfgs, id)
    /\ rts' = DeleteFrom(rts, id)
    /\ order' = DeleteOrder(order, id)
    /\ HistDelete(id)

StopAll ==
    /\ cfgs' = StopAllCfgs(cfgs)
    /\ UNCHANGED <<rts, order>>
    /\ HistConfig([op |-> "StopAll"], {id \in DOMAIN cfgs : cfgs[id].Enabled}, rts)

ResetAll ==
    /\ rts' = ResetAllRts(rts)
    /\ UNCHANGED <<cfgs, order>>
    /\ HistConfig([op |-> "ResetAll"], {}, rts')

ResetOne(id) ==
    /\ rts' = ResetOneRts(rts, id)
    /\ UNCHANGED <<cfgs, order>>
    /\ HistConfig([op |-> "ResetOne", ID |-> id], {}, rts')

ManagerOnBlock(state, height, hash, unixSec) ==
    /\ rts' = OnBlockRts(cfgs, rts, order, state, height, hash, unixSec)
    /\ UNCHANGED <<cfgs, order>>
    /\ HistOnBlock(CollectSignals(cfgs, rts, order, state, height, hash, unixSec), rts',
                   state, height, hash, unixSec)

----------------------------------------------------------------------------
(* ws.Hub *)

(* the connections that may be upgraded and registered; a *websocket.Conn is
   registered once *)
Conns == {"c1", "c2"}

(* NewHub() *)
HubInit ==
    /\ clients = {}
    /\ closed = {}
    /\ hconns = <<>>
    /\ hi = 0
    /\ failed = {}
    /\ wlog = [c \in Conns |-> <<>>]

(* a copy of the connections that holds each of them twice *)
RangeOrdersTwice(set) ==
    {f \o f : f \in {g \in [1..Cardinality(set) -> set] :
                        \A i, j \in 1..Cardinality(set) : g[i] = g[j] => i = j}}

(* the orders in which `for c := range h.clients` may yield the connections *)
RangeOrders(set) ==
    {f \in [1..Cardinality(set) -> set] : \A i, j \in 1..Cardinality(set) : f[i] = f[j] => i = j}

(* what c.WriteMessage may return: an error on a closed connection, anything otherwise *)
WriteOutcomes(c) == IF c \in closed THEN {FALSE} ELSE BOOLEAN

(* Hub.Count() *)
Count == Cardinality(clients)

(* position after a write, the loop of Broadcast ending at the first write error *)
AfterWriteStopOnError(conns, i, ok) == IF i < Len(conns) /\ ok THEN i + 1 ELSE 0

(* position after the write on conns[i]: the next connection, or 0 after the last one *)
AfterWrite(conns, i, ok) == IF i < Len(conns) THEN i + 1 ELSE 0

(* Hub.Handle: the upgraded connection c is registered under Hub.mu *)
Handle(c) ==
    /\ c \notin clients \cup closed
    /\ clients' = clients \cup {c}
    /\ UNCHANGED <<closed, hconns, hi, failed, wlog>>

(* the reader goroutine of Hub.Handle: ReadMessage failed; c is deleted under Hub.mu
   and closed *)
ReaderExit(c) ==
    /\ c \in clients
    /\ clients' = clients \ {c}
    /\ closed' = closed \cup {c}
    /\ UNCHANGED <<hconns, hi, failed, wlog>>

(* Hub.Broadcast(v), up to the copy of the connections made under Hub.mu (the signal
   structs always marshal); with no connection the call returns at once *)
Broadcast(v) ==
    /\ hi = 0
    /\ \E f \in RangeOrders(clients) : hconns' = f
    /\ hi' = IF clients = {} THEN 0 ELSE 1
    /\ UNCHANGED <<clients, closed, failed, wlog>>

(* Hub.Broadcast(v): the write on the next connection of the copy; on an error the
   connection is deleted under Hub.mu and closed, and the loop goes on *)
BroadcastWriteOn(v, n, ok) ==
    LET c == hconns[hi] IN
    /\ hi > 0
    /\ ok \in WriteOutcomes(c)
    /\ wlog' = [wlog EXCEPT ![c] = Append(@, [n |-> n, sig |-> v, ok |-> ok])]
    /\ clients' = IF ok THEN clients ELSE clients \ {c}
    /\ closed' = IF ok THEN closed ELSE closed \cup {c}
    /\ failed' = IF ok THEN failed ELSE failed \cup {c}
    /\ hi' = AfterWrite(hconns, hi, ok)
    /\ UNCHANGED hconns

----------------------------------------------------------------------------
(* app.Core *)

ZeroTime == [zero |-> TRUE, unix |-> 0]

(* time.Unix(sec, 0) *)
TimeOfUnix(sec) == [zero |-> FALSE, unix |-> sec]

NoBlock == [Height |-> <<>>, Hash |-> <<>>, TimeUnix |-> 0]

RECURSIVE ParseFrom(_, _, _)
ParseFrom(h, i, n) ==
    IF i > Len(h) THEN n
    ELSE IF ~IsDigit(h[i]) THEN 0
    ELSE ParseFrom(h, i + 1, n * 10 + DigitValue(h[i]))

parseHeight(h) == ParseFrom(h, 1, 0)

CoreInit ==
    /\ judgeRule = Lucky
    /\ lastHeight = <<>>
    /\ lastHash = <<>>
    /\ lastTime = ZeroTime
    /\ lastHeightNum = 0
    /\ rpc = "idle"
    /\ rblk = NoBlock
    /\ rstate = ""
    /\ rsigs = <<>>
    /\ hubSent = <<>>
    /\ radmRule = ""
    /\ spc = "idle"
    /\ srule = ""
    /\ switched = FALSE
    /\ drove = <<>>
    /\ HubInit

(* AddIfNew(b) admitting b whether or not its key is in the ring *)
AddIfNewAlways(b) ==
    /\ ringItems' = PushItems(ringItems, RingSize, b)
    /\ ringIndex' = PushIndex(ringItems, ringIndex, RingSize, b)
    /\ ringRet' = [op |-> "Push", arg |-> b, ok |-> TRUE]
    /\ admitted' = LastN(Append(admitted, b), AdmitLen)

(* RingBuffer.AddIfNew(b): admit b unless its key is in the ring *)
AddIfNew(b) == Push(b)

(* Core.OnBlock(b), up to the dedup: a duplicate ends the call *)
CoreOnBlockAdmit(b) ==
    /\ rpc = "idle"
    /\ AddIfNew(b)
    /\ IF ringRet'.ok
       THEN /\ rpc' = "gap"
            /\ rblk' = b
            /\ radmRule' = judgeRule
            /\ switched' = FALSE
            /\ rsigs' = <<>>
            /\ hubSent' = <<>>
            /\ wlog' = [c \in Conns |-> <<>>]
       ELSE UNCHANGED <<rpc, rblk, radmRule, switched, rsigs, hubSent, wlog>>
    /\ drove' = IF ringRet'.ok /\ makeKey(b) \notin ringIndex
                THEN [k \in DOMAIN drove \cup {makeKey(b)} |->
                         IF k = makeKey(b) THEN 0 ELSE drove[k]]
                ELSE drove
    /\ UNCHANGED <<mgrVars, histVars, judgeRule, lastHeight, lastHash, lastTime,
                   lastHeightNum, rstate, spc, srule, clients, closed, hconns, hi, failed>>

(* Core.OnBlock: gap detection (a log line) and the unlocked write of lastHeightNum *)
CoreOnBlockGap ==
    /\ rpc = "gap"
    /\ lastHeightNum' = parseHeight(rblk.Height)
    /\ rpc' = "status"
    /\ UNCHANGED <<mgrVars, histVars, ringVars, judgeRule, lastHeight, lastHash, lastTime,
                   rblk, rstate, rsigs, hubSent, radmRule, spc, srule, switched, drove, hubVars>>

(* Core.OnBlock: status update under Core.mu *)
CoreOnBlockStatus ==
    /\ rpc = "status"
    /\ lastHeight' = rblk.Height
    /\ lastHash' = rblk.Hash
    /\ lastTime' = TimeOfUnix(rblk.TimeUnix)
    /\ rpc' = "decide"
    /\ UNCHANGED <<mgrVars, histVars, ringVars, judgeRule, lastHeightNum,
                   rblk, rstate, rsigs, hubSent, radmRule, spc, srule, switched, drove, hubVars>>

(* Core.OnBlock: state := judge.Decide(b.Hash) *)
CoreOnBlockDecide ==
    /\ rpc = "decide"
    /\ rstate' = Decide(judgeRule, rblk.Hash)
    /\ rpc' = "feed"
    /\ UNCHANGED <<mgrVars, histVars, ringVars, judgeRule, lastHeight, lastHash, lastTime,
                   lastHeightNum, rblk, rsigs, hubSent, radmRule, spc, srule, switched, drove, hubVars>>

(* Core.OnBlock: signals := manager.OnBlock(state, ...) *)
CoreOnBlockFeed ==
    /\ rpc = "feed"
    /\ ManagerOnBlock(rstate, rblk.Height, rblk.Hash, rblk.TimeUnix)
    /\ rsigs' = out'
    /\ rpc' = "broadcast"
    /\ drove' = [drove EXCEPT ![makeKey(rblk)] = @ + 1]
    /\ UNCHANGED <<ringVars, judgeRule, lastHeight, lastHash, lastTime, lastHeightNum,
                   rblk, rstate, hubSent, radmRule, spc, srule, switched, hubVars>>

(* the signal the loop hands over next, taken from the end of the slice *)
NextSignalFromEnd(sigs, sent) == sigs[Len(sigs) - Len(sent)]

(* for _, s := range signals: the signal after those already passed to the hub *)
NextSignal(sigs, sent) == sigs[Len(sent) + 1]

(* Core.OnBlock: the loop over signals calls hub.Broadcast(s) for the next signal, or
   ends, and the call returns *)
CoreOnBlockBroadcast ==
    /\ rpc = "broadcast"
    /\ hi = 0
    /\ IF Len(hubSent) < Len(rsigs)
       THEN /\ Broadcast(NextSignal(rsigs, hubSent))
            /\ hubSent' = IF hi' = 0 THEN Append(hubSent, NextSignal(rsigs, hubSent))
                                     ELSE hubSent
            /\ UNCHANGED rpc
       ELSE /\ rpc' = "idle"
            /\ UNCHANGED <<hubSent, hubVars>>
    /\ UNCHANGED <<mgrVars, histVars, ringVars, judgeRule, lastHeight, lastHash, lastTime,
                   lastHeightNum, rblk, rstate, rsigs, radmRule, spc, srule, switched,
                   drove>>

(* Core.OnBlock inside hub.Broadcast(s): one write; after the last one Broadcast returns
   and the loop over signals moves on *)
CoreOnBlockWrite(ok) ==
    /\ rpc = "broadcast"
    /\ BroadcastWriteOn(NextSignal(rsigs, hubSent), Len(hubSent) + 1, ok)
    /\ hubSent' = IF hi' = 0 THEN Append(hubSent, NextSignal(rsigs, hubSent)) ELSE hubSent
    /\ UNCHANGED <<mgrVars, histVars, ringVars, judgeRule, lastHeight, lastHash, lastTime,
                   lastHeightNum, rpc, rblk, rstate, rsigs, radmRule, spc, srule, switched,
                   drove>>

(* Core.SwitchJudgeRule(rule): manager.StopAll() *)
SwitchStopAll(rule) ==
    /\ spc = "idle"
    /\ StopAll
    /\ srule' = rule
    /\ spc' = "resetAll"
    /\ UNCHANGED <<ringVars, judgeRule, lastHeight, lastHash, lastTime, lastHeightNum,
                   rpc, rblk, rstate, rsigs, hubSent, radmRule, switched, drove, hubVars>>

(* Core.SwitchJudgeRule: manager.ResetAll() *)
SwitchResetAll ==
    /\ spc = "resetAll"
    /\ ResetAll
    /\ spc' = "ringReset"
    /\ UNCHANGED <<ringVars, judgeRule, lastHeight, lastHash, lastTime, lastHeightNum,
                   rpc, rblk, rstate, rsigs, hubSent, radmRule, srule, switched, drove, hubVars>>

(* Core.SwitchJudgeRule: ring.Reset() *)
SwitchRingReset ==
    /\ spc = "ringReset"
    /\ RingReset
    /\ spc' = "setRule"
    /\ UNCHANGED <<mgrVars, histVars, judgeRule, lastHeight, lastHash, lastTime,
                   lastHeightNum, rpc, rblk, rstate, rsigs, hubSent, radmRule, srule, switched, drove, hubVars>>

(* Core.SwitchJudgeRule: judge.SetRule(rule) *)
SwitchSetRule ==
    /\ spc = "setRule"
    /\ judgeRule' = srule
    /\ spc' = "lastHeight"
    /\ UNCHANGED <<mgrVars, histVars, ringVars, lastHeight, lastHash, lastTime,
                   lastHeightNum, rpc, rblk, rstate, rsigs, hubSent, radmRule, srule, switched, drove, hubVars>>

(* Core.SwitchJudgeRule: lastHeightNum = 0 under Core.mu; the call returns *)
SwitchLastHeight ==
    /\ spc = "lastHeight"
    /\ lastHeightNum' = 0
    /\ spc' = "idle"
    /\ switched' = TRUE
    /\ UNCHANGED <<mgrVars, histVars, ringVars, judgeRule, lastHeight, lastHash, lastTime,
                   rpc, rblk, rstate, rsigs, hubSent, radmRule, srule, drove, hubVars>>

----------------------------------------------------------------------------
(* app.Core as the Runner drives it: OnBlock(b *source.Block) over RingBuffer.Push.
   Its lastHeight is the parsed height (int64); the variables lastHeight, lastHash and
   lastTime hold its fields in the specifications of this Core. *)

(* value of a string of decimal digits *)
RECURSIVE DigitsValue(_, _, _)
DigitsValue(s, i, n) ==
    IF i > Len(s) THEN n ELSE DigitsValue(s, i + 1, n * 10 + DigitValue(s[i]))

(* mustParseInt64: strconv.ParseInt(s, 10, 64), 0 on a syntax error *)
mustParseInt64(s) ==
    LET signed == s # <<>> /\ Head(s) \in {"+", "-"}
        body == IF signed THEN Tail(s) ELSE s
    IN  IF body = <<>> \/ \E i \in 1..Len(body) : ~IsDigit(body[i]) THEN 0
        ELSE IF signed /\ Head(s) = "-" THEN 0 - DigitsValue(body, 1, 0)
        ELSE DigitsValue(body, 1, 0)

(* NewCore(ring, j, mgr, ws) *)
GapCoreInit ==
    /\ judgeRule = Lucky
    /\ lastHeight = 0
    /\ lastHash = <<>>
    /\ lastTime = ZeroTime
    /\ lastHeightNum = 0
    /\ rpc = "idle"
    /\ rblk = NoBlock
    /\ rstate = ""
    /\ rsigs = <<>>
    /\ hubSent = <<>>
    /\ radmRule = ""
    /\ spc = "idle"
    /\ srule = ""
    /\ switched = FALSE
    /\ drove = <<>>
    /\ HubInit

GapInit ==
    /\ majorIncidents = 0
    /\ coreRet = [op |-> "NewCore"]

(* Manager.ProcessBlock: the engine's OnBlock(state, height, hash, timeUnix) *)
ProcessBlock(b, st) == ManagerOnBlock(st, b.Height, b.Hash, b.TimeUnix)

(* the guard of OnBlock: b == nil || b.Hash == "" || b.Height == "" *)
InvalidBlock(b) == b = Nil \/ b.Hash = <<>> \/ b.Height = <<>>

(* the gap condition with the gap of one height counted too *)
IsGapFromEqual(prevHeight, h) == prevHeight > 0 /\ h > prevHeight

(* the gap condition: prevHeight > 0 && h > prevHeight+1 *)
IsGap(prevHeight, h) == prevHeight > 0 /\ h > prevHeight + 1

(* Core.OnBlock(b), called by the Runner only *)
OnBlock(b) ==
    IF InvalidBlock(b)
    THEN /\ coreRet' = [op |-> "OnBlock", arg |-> b, did |-> "rejected"]
         /\ UNCHANGED <<mgrVars, histVars, ringVars, coreVars, majorIncidents>>
    ELSE /\ Push(b)
         /\ IF ~ringRet'.ok
            THEN /\ coreRet' = [op |-> "OnBlock", arg |-> b, did |-> "duplicate"]
                 /\ UNCHANGED <<mgrVars, histVars, coreVars, majorIncidents>>
            ELSE LET h == mustParseInt64(b.Height)
                     st == Decide(judgeRule, b.Hash)
                 IN  /\ lastHeight' = h
                     /\ lastHash' = b.Hash
                     /\ lastTime' = TimeOfUnix(b.TimeUnix)
                     /\ majorIncidents' =
                           IF IsGap(lastHeight, h) THEN majorIncidents + 1 ELSE majorIncidents
                     /\ ProcessBlock(b, st)
                     /\ hubSent' = out'
                     /\ coreRet' = [op |-> "OnBlock", arg |-> b, did |-> "processed",
                                    state |-> st]
                     /\ UNCHANGED <<judgeRule, lastHeightNum, rpc, rblk, rstate, rsigs,
                                    radmRule, spc, srule, switched, drove, hubVars>>

----------------------------------------------------------------------------
(* app.Runner *)

DefaultFailWait == 2
DefaultBaseTick == 800
MinBaseTick == 200
MinWaitMinutes == 1

NoFetch == [Block |-> Nil, Err |-> NoErr]

(* the threads that may call Runner.Stop *)
StopCallers == {"t1", "t2"}

(* no thread is inside Stop and stopCh was never closed *)
StopInit ==
    /\ stopPc = [t \in StopCallers |-> "idle"]
    /\ closes = 0
    /\ stopPanic = FALSE

(* NewRunner(core, dispatcher); Run has been started *)
RunnerInit ==
    /\ autoRestart = TRUE
    /\ failWait = DefaultFailWait
    /\ baseTick = DefaultBaseTick
    /\ stopCh = FALSE
    /\ runPc = "select"
    /\ runLocal = [tick |-> 0, auto |-> FALSE, wait |-> 0]
    /\ runFetch = NoFetch
    /\ timerFired = FALSE
    /\ trail = <<>>
    /\ afterStop = 0
    /\ StopInit

(* Runner.UpdatePolicy(auto, waitMinutes), under Runner.mu *)
UpdatePolicy(auto, waitMinutes) ==
    /\ autoRestart' = auto
    /\ failWait' = IF waitMinutes <= 0 THEN MinWaitMinutes ELSE waitMinutes
    /\ UNCHANGED <<baseTick, stopCh, runPc, runLocal, runFetch, timerFired, trail, afterStop>>

(* Runner.UpdateBaseTick(ms), under Runner.mu *)
UpdateBaseTick(ms) ==
    /\ baseTick' = IF ms < MinBaseTick THEN MinBaseTick ELSE ms
    /\ UNCHANGED <<autoRestart, failWait, stopCh, runPc, runLocal, runFetch, timerFired,
                   trail, afterStop>>

(* Runner.Stop(): close stopCh unless it is closed *)
Stop ==
    /\ stopCh' = TRUE
    /\ UNCHANGED <<autoRestart, failWait, baseTick, runPc, runLocal, runFetch, timerFired,
                   trail, afterStop>>

(* Runner.Stop() called by thread t, the select: `case <-r.stopCh` returns, `default`
   goes on to the close.  Stop takes no lock. *)
StopSelect(t) ==
    /\ stopPc[t] = "idle"
    /\ ~stopPanic
    /\ stopPc' = [stopPc EXCEPT ![t] = IF stopCh THEN "idle" ELSE "close"]
    /\ UNCHANGED <<autoRestart, failWait, baseTick, stopCh, runPc, runLocal, runFetch,
                   timerFired, trail, afterStop, closes, stopPanic>>

(* Runner.Stop() called by thread t: close(r.stopCh); closing a closed channel panics *)
StopClose(t) ==
    /\ stopPc[t] = "close"
    /\ ~stopPanic
    /\ closes' = closes + 1
    /\ stopPanic' = stopCh
    /\ stopCh' = TRUE
    /\ stopPc' = [stopPc EXCEPT ![t] = "idle"]
    /\ UNCHANGED <<autoRestart, failWait, baseTick, runPc, runLocal, runFetch,
                   timerFired, trail, afterStop>>

(* Run: the stop check at the head of the loop *)
RunSelect ==
    /\ runPc = "select"
    /\ runPc' = IF stopCh THEN "returned" ELSE "policy"
    /\ trail' = <<>>
    /\ UNCHANGED <<autoRestart, failWait, baseTick, stopCh, runLocal, runFetch, timerFired,
                   afterStop>>

(* Run: tick, auto, wait are read under Runner.mu *)
RunPolicy ==
    /\ runPc = "policy"
    /\ runLocal' = [tick |-> baseTick, auto |-> autoRestart, wait |-> failWait]
    /\ runPc' = "fetch"
    /\ UNCHANGED <<autoRestart, failWait, baseTick, stopCh, runFetch, timerFired, trail,
                   afterStop>>

(* where Run goes after a failed FetchAny, retrying whatever the policy *)
AfterFetchErrorRetry(auto) == "failSleep"

(* where Run goes after a failed FetchAny *)
AfterFetchError(auto) == IF ~auto THEN "returned" ELSE "failSleep"

(* Run: b, err := dispatcher.FetchAny(ctx), and the branch on err *)
RunFetchAny(arr) ==
    /\ runPc = "fetch"
    /\ FetchAny(arr)
    /\ runFetch' = [Block |-> fetchRet'.Block, Err |-> fetchRet'.Err]
    /\ IF fetchRet'.Err # NoErr
       THEN /\ runPc' = AfterFetchError(runLocal.auto)
            /\ trail' = IF runPc' = "failSleep"
                        THEN <<[ev |-> "error"], [ev |-> "sleep", d |-> runLocal.wait]>>
                        ELSE <<[ev |-> "error"]>>
       ELSE /\ runPc' = "onBlock"
            /\ trail' = <<[ev |-> "block", b |-> fetchRet'.Block]>>
    /\ timerFired' = FALSE
    /\ UNCHANGED <<autoRestart, failWait, baseTick, stopCh, runLocal, afterStop>>

(* Run: r.core.OnBlock(b), then the sleep of one tick begins *)
RunOnBlock ==
    /\ runPc = "onBlock"
    /\ OnBlock(runFetch.Block)
    /\ runPc' = "tickSleep"
    /\ timerFired' = FALSE
    /\ trail' = trail \o <<[ev |-> "OnBlock", b |-> runFetch.Block],
                            [ev |-> "sleep", d |-> runLocal.tick]>>
    /\ afterStop' = IF stopCh THEN afterStop + 1 ELSE afterStop
    /\ UNCHANGED <<autoRestart, failWait, baseTick, stopCh, runLocal, runFetch>>

(* the timer of the running sleep fires *)
TimerFire ==
    /\ runPc \in {"failSleep", "tickSleep"}
    /\ ~timerFired
    /\ timerFired' = TRUE
    /\ UNCHANGED <<autoRestart, failWait, baseTick, stopCh, runPc, runLocal, runFetch,
                   trail, afterStop>>

(* sleepOrStop waking on its timer only *)
sleepOrStopTimerOnly(stopClosed, fired) == IF fired THEN {TRUE} ELSE {}

(* sleepOrStop(d, stop): the values its select can return *)
sleepOrStop(stopClosed, fired) ==
    (IF stopClosed THEN {FALSE} ELSE {}) \cup (IF fired THEN {TRUE} ELSE {})

(* Run: sleepOrStop returns; false ends Run *)
RunWake ==
    /\ runPc \in {"failSleep", "tickSleep"}
    /\ \E ok \in sleepOrStop(stopCh, timerFired) :
          runPc' = IF ok THEN "select" ELSE "returned"
    /\ timerFired' = FALSE
    /\ UNCHANGED <<autoRestart, failWait, baseTick, stopCh, runLocal, runFetch, trail,
                   afterStop>>

(* the steps Runner.Run takes by itself *)
RunnerStep ==
    \/ RunSelect /\ UNCHANGED <<mgrVars, histVars, ringVars, coreVars, judgeRet, dispVars, gapVars, srcVars, stopVars, goVars>>
    \/ RunPolicy /\ UNCHANGED <<mgrVars, histVars, ringVars, coreVars, judgeRet, dispVars, gapVars, srcVars, stopVars, goVars>>
    \/ \E arr \in Arrivals(sources) :
          RunFetchAny(arr) /\ UNCHANGED <<mgrVars, histVars, ringVars, coreVars, judgeRet, gapVars, srcVars, stopVars, goVars>>
    \/ RunOnBlock /\ UNCHANGED <<judgeRet, dispVars, srcVars, stopVars, goVars>>
    \/ RunWake /\ UNCHANGED <<mgrVars, histVars, ringVars, coreVars, judgeRet, dispVars, gapVars, srcVars, stopVars, goVars>>

----------------------------------------------------------------------------
(* source.Limiter.  Time advances in ticks of 1/TicksPerSec second and tokens are
   counted in units of 1/TicksPerSec token, so that elapsed * baseRate is exact. *)

(* one token *)
OneToken == TicksPerSec

(* float64(maxRate), in token units *)
Ceiling(maxRate) == maxRate * TicksPerSec

(* the elapsed time after which every limiter is full; longer times refill the same *)
ElapsedCap == MaxRate * TicksPerSec

(* the rate normalisation of NewLimiter and Update *)
NormBase(baseRate) == IF baseRate <= 0 THEN 1 ELSE baseRate

NormMax(baseRate, maxRate) ==
    LET b == NormBase(baseRate)
        m == IF maxRate <= 0 THEN b ELSE maxRate
    IN  IF m < b THEN b ELSE m

(* the refill of Allow, without the ceiling *)
RefillUncapped(tokens, elapsed, baseRate, maxRate) ==
    IF elapsed > 0 THEN tokens + elapsed * baseRate ELSE tokens

(* the refill of Allow: tokens += elapsed * baseRate, capped at maxRate *)
Refill(tokens, elapsed, baseRate, maxRate) ==
    IF elapsed > 0 THEN Min(Ceiling(maxRate), tokens + elapsed * baseRate) ELSE tokens

(* NewLimiter(baseRate, maxRate) *)
NewLimiter(baseRate, maxRate) ==
    /\ limBase = NormBase(baseRate)
    /\ limMax = NormMax(baseRate, maxRate)
    /\ limTokens = Ceiling(NormMax(baseRate, maxRate))
    /\ limElapsed = 0
    /\ limRet = [op |-> "NewLimiter"]

(* Limiter.Update(baseRate, maxRate), under Limiter.mu *)
Update(baseRate, maxRate) ==
    /\ limBase' = NormBase(baseRate)
    /\ limMax' = NormMax(baseRate, maxRate)
    /\ limTokens' = Min(limTokens, Ceiling(NormMax(baseRate, maxRate)))
    /\ limRet' = [op |-> "Update", tokens0 |-> limTokens]
    /\ UNCHANGED limElapsed

(* Limiter.Allow(), under Limiter.mu; limRet keeps what the call found *)
Allow ==
    LET t == Refill(limTokens, limElapsed, limBase, limMax) IN
    /\ limTokens' = IF t >= OneToken THEN t - OneToken ELSE t
    /\ limElapsed' = 0
    /\ limRet' = [op |-> "Allow", ok |-> t >= OneToken,
                  tokens0 |-> limTokens, elapsed0 |-> limElapsed]
    /\ UNCHANGED <<limBase, limMax>>

(* a tick of the clock *)
Tick ==
    /\ limElapsed' = Min(ElapsedCap, limElapsed + 1)
    /\ limRet' = [op |-> "Tick"]
    /\ UNCHANGED <<limBase, limMax, limTokens>>

----------------------------------------------------------------------------
(* source.AnkrRestFetcher and source.Client *)

(* Go integer division, truncating towards zero *)
GoDiv(a, b) == IF a >= 0 THEN a \div b ELSE -((-a) \div b)

(* byte('0' + d) *)
DigitChar(d) == DigitChars[d + 1]

RECURSIVE FormatNat(_)
FormatNat(n) == IF n < 10 THEN <<DigitChar(n)>> ELSE FormatNat(n \div 10) \o <<DigitChar(n % 10)>>

(* itoa64: "0" for 0, the decimal digits of a positive number, nothing for a negative one *)
itoa64(v) == IF v = 0 THEN <<"0">> ELSE IF v < 0 THEN <<>> ELSE FormatNat(v)

(* JSON values found at the configured paths *)
JStr(str) == [kind |-> "string", str |-> str]
JNum(n)   == [kind |-> "number", n |-> n]
JNull     == [kind |-> "null"]

(* toString: a string as it is, a JSON number by "%.0f", anything else by "%v" *)
toString(v) ==
    IF v.kind = "string" THEN v.str
    ELSE IF v.kind = "number"
         THEN (IF v.n < 0 THEN <<"-">> \o FormatNat(-v.n) ELSE FormatNat(v.n))
         ELSE <<"<", "n", "i", "l", ">">>

(* toUnixSeconds: a JSON number truncated, a string of digits parsed (0 if any other
   character occurs), 0 for anything else; divided by 1000 for the unit "ms" *)
toUnixSeconds(v, unit) ==
    LET n == IF v.kind = "number" THEN v.n
             ELSE IF v.kind = "string" THEN ParseFrom(v.str, 1, 0)
             ELSE 0
    IN  IF v.kind \notin {"number", "string"} THEN 0
        ELSE IF v.kind = "string" /\ n = 0 THEN 0
        ELSE IF unit = "ms" THEN GoDiv(n, 1000) ELSE n

NoFetchOut == [op |-> "none"]

(* NewAnkrRestFetcher(cfg) *)
NewAnkrRestFetcher(cfg) ==
    /\ fcfg = cfg
    /\ NewLimiter(cfg.BaseRate, cfg.MaxRate)
    /\ fetchOut = NoFetchOut

(* AnkrRestFetcher.UpdateConfig(cfg) *)
UpdateConfig(cfg) ==
    /\ fcfg' = cfg
    /\ Update(cfg.BaseRate, cfg.MaxRate)
    /\ UNCHANGED fetchOut

(* what FetchLatest makes of the decoded response: blockID and number are checked,
   the timestamp is not *)
AnkrResult(resp) ==
    IF resp.err # NoErr THEN [block |-> Nil, err |-> resp.err]
    ELSE IF resp.BlockID = <<>> \/ resp.Number <= 0
         THEN [block |-> Nil, err |-> "invalid_block"]
         ELSE [block |-> [Height |-> itoa64(resp.Number), Hash |-> resp.BlockID,
                          TimeUnix |-> GoDiv(resp.Timestamp, 1000)],
               err |-> NoErr]

(* AnkrRestFetcher.FetchLatest(ctx) when the endpoint, if asked, answers resp *)
FetchLatest(resp) ==
    IF ~fcfg.Enabled
    THEN /\ fetchOut' = [op |-> "FetchLatest", by |-> "ankr", enabled |-> FALSE,
                         asked |-> FALSE, requested |-> FALSE,
                         block |-> Nil, err |-> "disabled"]
         /\ UNCHANGED <<fcfg, limVars>>
    ELSE /\ Allow
         /\ fetchOut' =
               IF ~limRet'.ok
               THEN [op |-> "FetchLatest", by |-> "ankr", enabled |-> TRUE,
                     asked |-> TRUE, requested |-> FALSE,
                     block |-> Nil, err |-> "rate_limited"]
               ELSE [op |-> "FetchLatest", by |-> "ankr", enabled |-> TRUE,
                     asked |-> TRUE, requested |-> TRUE, resp |-> resp,
                     block |-> AnkrResult(resp).block, err |-> AnkrResult(resp).err]
         /\ UNCHANGED fcfg

(* what Client.FetchLatest makes of the response: height and hash are checked as
   strings, the time as a number of seconds *)
ClientResult(resp) ==
    IF resp.err # NoErr THEN [block |-> Nil, err |-> resp.err]
    ELSE LET height == toString(resp.height)
             hash   == toString(resp.hash)
             tunix  == toUnixSeconds(resp.time, resp.unit)
         IN  IF height = <<>> \/ hash = <<>> \/ tunix <= 0
             THEN [block |-> Nil, err |-> "invalid parsed fields"]
             ELSE [block |-> [Height |-> height, Hash |-> hash, TimeUnix |-> tunix],
                   err |-> NoErr]

(* Client.FetchLatest(ctx, cfg) when the URL answers resp *)
ClientFetchLatest(resp) ==
    /\ fetchOut' = [op |-> "FetchLatest", by |-> "client", enabled |-> TRUE,
                    asked |-> FALSE, requested |-> TRUE, resp |-> resp,
                    block |-> ClientResult(resp).block, err |-> ClientResult(resp).err]
    /\ UNCHANGED <<fcfg, limVars>>

(* rates handed to NewLimiter and Update: one below the range, and the range *)
RateInputs == {0, 1, MaxRate}

(* configs of the fetcher *)
SourceConfigs == [Enabled : BOOLEAN, BaseRate : RateInputs, MaxRate : RateInputs]

(* what the endpoint of the AnkrRestFetcher may answer: no answer, an answer that does
   not decode, and every combination of a present or missing blockID, a negative,
   missing or positive number, and a missing, sub-second or later timestamp (ms) *)
AnkrResponses ==
    {[err |-> "transport"], [err |-> "decode"]}
    \cup [err : {NoErr}, BlockID : {<<>>, <<"a", "3">>}, Number : {-1, 0, 7},
          Timestamp : {0, 999, 2000}]

(* what the URL of the Client may answer: failures, a complete answer, and answers
   that differ from it in one field *)
GoodAnswer ==
    [err |-> NoErr, height |-> JStr(<<"7">>), hash |-> JStr(<<"a", "3">>),
     time |-> JNum(2000), unit |-> "ms"]

ClientResponses ==
    {[err |-> "http 500"], [err |-> "json parse"], [err |-> "heightPath"]}
    \cup {GoodAnswer}
    \cup {[GoodAnswer EXCEPT !.height = h] :
             h \in {JStr(<<>>), JNum(7), JNum(0), JNum(-5), JNull}}
    \cup {[GoodAnswer EXCEPT !.hash = JStr(<<>>)]}
    \cup {[GoodAnswer EXCEPT !.time = t, !.unit = u] :
             t \in {JNum(0), JNum(999), JStr(<<"2">>), JStr(<<"2", "x">>), JNull},
             u \in {"ms", "s"}}

(* the fetcher of the other specifications: constructed and never called *)
SourceInit == NewAnkrRestFetcher([Enabled |-> TRUE, BaseRate |-> 1, MaxRate |-> 1])

----------------------------------------------------------------------------
(* Specifications *)

(* the engine as NewManager(cfgList) leaves it *)
ManagerInit ==
    /\ \E cfgList \in {<<>>} \cup {<<c>> : c \in M1Inputs} :
          LET m == NewManager(cfgList) IN
          /\ cfgs = m.cfgs
          /\ rts = m.rts
          /\ order = m.order
    /\ HistInit

InitMachine ==
    /\ ManagerInit /\ RingInit /\ CoreInit
    /\ JudgeInit /\ DispatcherInit /\ GapInit /\ RunnerInit /\ SourceInit

(* The machine engine under every use its callers can make of it *)
NextMachine ==
    /\ \/ \E s \in Results, b \in MBlocks : ManagerOnBlock(s, b.Height, b.Hash, b.TimeUnix)
       \/ \E c \in M1Inputs : Upsert(c)
       \/ \E id \in MachineIDs : Delete(id)
       \/ StopAll
       \/ ResetAll
       \/ \E id \in MachineIDs : ResetOne(id)
    /\ UNCHANGED <<ringVars, coreVars, pipeVars>>

SpecMachine == InitMachine /\ [][NextMachine]_vars

(* The machine engine with the configs given at construction and never changed *)
NextEngine ==
    /\ \E s \in Results, b \in MBlocks : ManagerOnBlock(s, b.Height, b.Hash, b.TimeUnix)
    /\ UNCHANGED <<ringVars, coreVars, pipeVars>>

SpecEngine == InitMachine /\ [][NextEngine]_vars

(* The machine engine with two machines, under every use its callers can make of it *)
InitFleet ==
    /\ \E cfgList \in FleetLists :
          LET m == NewManager(cfgList) IN
          /\ cfgs = m.cfgs
          /\ rts = m.rts
          /\ order = m.order
    /\ HistInit
    /\ RingInit /\ CoreInit /\ JudgeInit /\ DispatcherInit /\ GapInit /\ RunnerInit /\ SourceInit

NextFleet ==
    /\ \/ \E s \in Results, b \in MBlocks : ManagerOnBlock(s, b.Height, b.Hash, b.TimeUnix)
       \/ \E c \in FleetInputs : Upsert(c)
       \/ \E id \in MachineIDs : Delete(id)
       \/ StopAll
       \/ ResetAll
       \/ \E id \in MachineIDs : ResetOne(id)
    /\ UNCHANGED <<ringVars, coreVars, pipeVars>>

SpecFleet == InitFleet /\ [][NextFleet]_vars

(* A fetcher with its limiter, the clock, config updates and the answers of its
   endpoint; and the Client fetching from a URL *)
InitSource ==
    /\ cfgs = <<>> /\ rts = <<>> /\ order = <<>>
    /\ HistInit
    /\ RingInit
    /\ CoreInit
    /\ JudgeInit
    /\ DispatcherInit
    /\ GapInit
    /\ RunnerInit
    /\ \E cfg \in SourceConfigs : NewAnkrRestFetcher(cfg)

NextSource ==
    /\ \/ Tick /\ UNCHANGED <<fcfg, fetchOut>>
       \/ Allow /\ UNCHANGED <<fcfg, fetchOut>>
       \/ \E cfg \in SourceConfigs : UpdateConfig(cfg)
       \/ \E resp \in AnkrResponses : FetchLatest(resp)
       \/ \E resp \in ClientResponses : ClientFetchLatest(resp)
    /\ UNCHANGED <<mgrVars, histVars, ringVars, coreVars, judgeRet, dispVars, gapVars,
                   runVars, stopVars, goVars>>

SpecSource == InitSource /\ [][NextSource]_vars

(* The dedup ring under every sequence of Push, Exists and List *)
InitRing ==
    /\ cfgs = <<>> /\ rts = <<>> /\ order = <<>>
    /\ HistInit
    /\ RingInit
    /\ CoreInit
    /\ JudgeInit
    /\ DispatcherInit
    /\ GapInit
    /\ RunnerInit
    /\ SourceInit

NextRing ==
    /\ \/ \E b \in RBlocks : Push(b)
       \/ \E b \in RBlocks : Exists(b)
       \/ List
    /\ UNCHANGED <<mgrVars, histVars, coreVars, pipeVars>>

SpecRing == InitRing /\ [][NextRing]_vars

(* The Core: the Runner thread inside Core.OnBlock, an API thread inside
   Core.SwitchJudgeRule and an API thread upserting machine configs *)
InitCore ==
    /\ \E c \in CoreInputs :
          LET m == NewManager(<<c>>) IN
          /\ cfgs = m.cfgs
          /\ rts = m.rts
          /\ order = m.order
    /\ HistInit
    /\ RingInit
    /\ CoreInit
    /\ JudgeInit
    /\ DispatcherInit
    /\ GapInit
    /\ RunnerInit
    /\ SourceInit

NextCore ==
    /\ \/ \E b \in CBlocks : CoreOnBlockAdmit(b)
       \/ CoreOnBlockGap
       \/ CoreOnBlockStatus
       \/ CoreOnBlockDecide
       \/ CoreOnBlockFeed
       \/ CoreOnBlockBroadcast
       \/ \E rule \in Rules : SwitchStopAll(rule)
       \/ SwitchResetAll
       \/ SwitchRingReset
       \/ SwitchSetRule
       \/ SwitchLastHeight
       \/ \E c \in CoreInputs : Upsert(c) /\ UNCHANGED <<ringVars, coreVars>>
    /\ UNCHANGED pipeVars

SpecCore == InitCore /\ [][NextCore]_vars

(* The Core in front of the hub: the Runner thread inside Core.OnBlock and the
   Hub.Broadcast calls it makes, connections registered by Hub.Handle and dropped by
   their reader goroutines; the machines are those NewManager was given *)
InitHub ==
    /\ \E cfgList \in HubLists :
          LET m == NewManager(cfgList) IN
          /\ cfgs = m.cfgs
          /\ rts = m.rts
          /\ order = m.order
    /\ HistInit
    /\ RingInit
    /\ CoreInit
    /\ JudgeInit
    /\ DispatcherInit
    /\ GapInit
    /\ RunnerInit
    /\ SourceInit

NextHub ==
    /\ \/ \E b \in HubBlocks : CoreOnBlockAdmit(b)
       \/ CoreOnBlockGap
       \/ CoreOnBlockStatus
       \/ CoreOnBlockDecide
       \/ CoreOnBlockFeed
       \/ CoreOnBlockBroadcast
       \/ \E ok \in BOOLEAN : CoreOnBlockWrite(ok)
       \/ \E c \in Conns : Handle(c) /\ UNCHANGED <<mgrVars, histVars, ringVars, coreOwn>>
       \/ \E c \in Conns : ReaderExit(c) /\ UNCHANGED <<mgrVars, histVars, ringVars, coreOwn>>
    /\ UNCHANGED pipeVars

SpecHub == InitHub /\ [][NextHub]_vars

(* Core.OnBlock called by the Runner, one call after the other, no rule switch *)
NextCoreBlocks ==
    /\ \/ \E b \in EBlocks : CoreOnBlockAdmit(b)
       \/ CoreOnBlockGap
       \/ CoreOnBlockStatus
       \/ CoreOnBlockDecide
       \/ CoreOnBlockFeed
       \/ CoreOnBlockBroadcast
    /\ UNCHANGED pipeVars

SpecCoreBlocks == InitCore /\ [][NextCoreBlocks]_vars

(* The Judge under every sequence of SetRule and Decide *)
NextJudge ==
    /\ \/ \E rule \in RuleInputs : SetRule(rule)
       \/ \E hash \in Hashes : JudgeDecide(hash)
    /\ UNCHANGED <<mgrVars, histVars, ringVars, lastHeight, lastHash, lastTime,
                   lastHeightNum, rpc, rblk, rstate, rsigs, hubSent, radmRule,
                   spc, srule, switched, drove, hubVars, dispVars, gapVars, srcVars, stopVars, goVars, runVars>>

SpecJudge == InitRing /\ [][NextJudge]_vars

(* The Dispatcher under every sequence of SetSources and FetchAny *)
NextDispatcher ==
    /\ \/ \E srcs \in SourceLists : SetSources(srcs)
       \/ \E arr \in Arrivals(sources) : FetchAny(arr)
    /\ UNCHANGED <<mgrVars, histVars, ringVars, coreVars, judgeRet, gapVars, srcVars, stopVars, goVars, runVars>>

SpecDispatcher == InitRing /\ [][NextDispatcher]_vars

(* FetchAny goroutine by goroutine, one call after the other, with SetSources at any
   time *)
GoProgress ==
    /\ \/ \E i \in 1..Len(gor) : \E r \in GoResults(faSrcs[i].ID) : GoFetchReturn(i, r)
       \/ \E i \in 1..Len(gor) : GoSend(i)
       \/ CloserClose
       \/ FetchAnyRecv
       \/ FetchAnyRecvClosed
    /\ UNCHANGED <<mgrVars, histVars, ringVars, coreVars, judgeRet, gapVars, srcVars,
                   stopVars, runVars>>

NextGo ==
    \/ /\ \/ \E srcs \in GoLists : SetSources(srcs) /\ UNCHANGED goVars
          \/ FetchAnyBegin
       /\ UNCHANGED <<mgrVars, histVars, ringVars, coreVars, judgeRet, gapVars, srcVars,
                      stopVars, runVars>>
    \/ GoProgress

(* every fetcher returns, and a goroutine that can take a step is scheduled *)
SpecGoLive == InitRing /\ [][NextGo]_vars /\ WF_vars(GoProgress)

(* The Core the Runner drives, under every sequence of blocks *)
InitGapCore ==
    /\ \E c \in CoreInputs :
          LET m == NewManager(<<c>>) IN
          /\ cfgs = m.cfgs
          /\ rts = m.rts
          /\ order = m.order
    /\ HistInit
    /\ RingInit
    /\ GapCoreInit
    /\ JudgeInit
    /\ DispatcherInit
    /\ GapInit
    /\ RunnerInit
    /\ SourceInit

NextGapCore ==
    /\ \E b \in PBlocks \cup {Nil} :
          /\ (~InvalidBlock(b) /\ IsGap(lastHeight, mustParseInt64(b.Height)))
                => majorIncidents < MaxIncidents
          /\ OnBlock(b)
    /\ UNCHANGED <<judgeRet, dispVars, runVars, srcVars, stopVars, goVars>>

SpecGapCore == InitGapCore /\ [][NextGapCore]_vars

(* The Runner polling one enabled source and driving the Core, with the API changing
   its policy and stopping it *)
InitRunner ==
    /\ \E c \in CoreInputs :
          LET m == NewManager(<<c>>) IN
          /\ cfgs = m.cfgs
          /\ rts = m.rts
          /\ order = m.order
    /\ HistInit
    /\ RingInit
    /\ GapCoreInit
    /\ JudgeInit
    /\ sources = <<[ID |-> "s1", Enabled |-> TRUE]>>
    /\ lastSeen = <<>>
    /\ fetchRet = [op |-> "SetSources"]
    /\ GoInit
    /\ GapInit
    /\ RunnerInit
    /\ SourceInit

ApiStep ==
    /\ \/ \E p \in PolicyInputs : UpdatePolicy(p.auto, p.waitMinutes)
       \/ \E ms \in TickInputs : UpdateBaseTick(ms)
       \/ Stop
    /\ UNCHANGED <<mgrVars, histVars, ringVars, coreVars, judgeRet, dispVars, gapVars, srcVars, stopVars, goVars>>

TimeStep ==
    TimerFire /\ UNCHANGED <<mgrVars, histVars, ringVars, coreVars, judgeRet, dispVars, gapVars, srcVars, stopVars, goVars>>

NextRunner == RunnerStep \/ ApiStep \/ TimeStep

SpecRunner == InitRunner /\ [][NextRunner]_vars

(* The Runner with threads that call Stop at any time, each running Stop statement by
   statement *)
StopStep ==
    /\ \E t \in StopCallers : StopSelect(t) \/ StopClose(t)
    /\ UNCHANGED <<mgrVars, histVars, ringVars, coreVars, judgeRet, dispVars, gapVars,
                   srcVars, goVars>>

NextStop == RunnerStep \/ TimeStep \/ StopStep

SpecStop == InitRunner /\ [][NextStop]_vars

(* Run is scheduled: a step it can take is taken; neither the timer nor the API is
   obliged to act *)
SpecRunnerLive == InitRunner /\ [][NextRunner]_vars /\ WF_vars(RunnerStep)

TypeOK ==
    /\ DOMAIN cfgs \subseteq MachineIDs
    /\ DOMAIN rts \subseteq MachineIDs
    /\ Len(hist) <= HistLen
    /\ clients \subseteq Conns /\ closed \subseteq Conns /\ failed \subseteq Conns
    /\ hi \in 0..Len(hconns)
    /\ limElapsed \in 0..ElapsedCap

----------------------------------------------------------------------------
(* Claims about the machine engine *)

(* the last Threshold blocks fed to the engine were all classified as the machine's
   TriggerState and the machine processed each of them with waitingReverse = false *)
StreakBefore(id) ==
    LET thr == CfgOf(cfgs, id).Threshold IN
    /\ Len(hist) >= thr
    /\ \A i \in (Len(hist) - thr + 1)..Len(hist) : hist[i] = CfgOf(cfgs, id).TriggerState
    /\ gateOpen[id] >= thr

(* C1, as stated: every TRIGGER a machine emits at block B is preceded by `threshold`
   consecutive admitted blocks ending at B, all classified as its triggerState and all
   processed with waitingReverse = false. *)
C1_TriggerPrecondition ==
    \A id \in MachineIDs : HasSignal(out, "TRIGGER", id) => StreakBefore(id)

(* C1, amended: the same for every TRIGGER of a machine whose config was not changed
   since its counter was last zero. *)
C1_TriggerPreconditionStableConfig ==
    \A id \in MachineIDs :
        HasSignal(out, "TRIGGER", id) /\ ~dirty[id] => StreakBefore(id)

(* a TRIGGER after a streak of MaxThreshold >= 2 blocks counted under one config *)
C1_Witness ==
    \E id \in MachineIDs :
        /\ HasSignal(out, "TRIGGER", id)
        /\ ~dirty[id]
        /\ CfgOf(cfgs, id).Threshold = MaxThreshold
        /\ Len(hist) = MaxThreshold

(* C2: for every TRIGGER with hitEnabled and hitOffset = k, a HIT is emitted at the k-th
   block after it iff that block's classification equals hitExpect; a HIT is emitted at
   no other block and at most once. *)
C2_HitAtOffset ==
    \A id \in MachineIDs :
        /\ \A e \in due[id] : HasSignal(out, "HIT", id) <=> (lastCall.State = e)
        /\ HasSignal(out, "HIT", id) => due[id] # {}
        /\ CountSignals(out, "HIT", id) <= 1

(* C3: a HIT is evaluated only if hitEnabled was true at TRIGGER time, against the
   hitExpect snapshotted then, and reports the hitOffset snapshotted then, whatever
   Upsert did to the config in between; at most one HIT per block and machine. *)
C3_HitUsesSnapshot ==
    \A id \in MachineIDs :
        /\ \A i \in 1..Len(out) :
              out[i].Type = "HIT" /\ out[i].MachineID = id =>
                  /\ snap[id].en
                  /\ out[i].State = snap[id].expect
                  /\ out[i].Offset = snap[id].offset
        /\ CountSignals(out, "HIT", id) <= 1

(* C4: right after an OnBlock call in which a machine emitted a TRIGGER, its counter is
   0, waitingReverse is set and its base is the block of the call. *)
C4_AfterTrigger ==
    \A i \in 1..Len(out) :
        out[i].Type = "TRIGGER" =>
            LET rt == RtOf(rts, out[i].MachineID) IN
            /\ out[i].MachineID \in DOMAIN rts
            /\ rt.Counter = 0
            /\ rt.WaitingReverse
            /\ rt.LastTriggerHeight = lastCall.Height
            /\ rt.LastTriggerHash = lastCall.Hash
            /\ rt.LastTriggerTime = lastCall.Time

(* a second TRIGGER of a machine, on a block other than its previous base *)
C4_Witness ==
    \E i \in 1..Len(out) :
        /\ out[i].Type = "TRIGGER"
        /\ lastCall.Height = <<"9">>
        /\ \E p \in pend[out[i].MachineID] : p.left < MaxOffset
(* C21: while a machine is disabled, Manager.OnBlock leaves its whole runtime unchanged
   and emits no signal for it; a pending HIT countdown is frozen meanwhile, and an
   OnBlock call that finds the machine enabled counts on from the value it kept
   (unless a TRIGGER of that call arms a new countdown). *)
C21_DisabledFrozen ==
    [][lastCall'.op = "OnBlock" =>
         \A id \in MachineIDs :
            InOrder(order, id) =>
               /\ ~CfgOf(cfgs, id).Enabled =>
                     /\ id \in DOMAIN rts'
                     /\ rts'[id] = RtOf(rts, id)
                     /\ \A i \in 1..Len(out') : out'[i].MachineID # id
               /\ /\ CfgOf(cfgs, id).Enabled /\ CfgOf(cfgs, id).HitEnabled
                  /\ RtOf(rts, id).HitPending /\ RtOf(rts, id).HitCountdown > 1
                  /\ ~HasSignal(out', "TRIGGER", id)
                  => rts'[id].HitCountdown = RtOf(rts, id).HitCountdown - 1]_vars

(* an OnBlock call has just passed over a disabled machine whose HIT countdown is
   pending with more than one block to go *)
C21_Witness ==
    /\ lastCall.op = "OnBlock"
    /\ \E id \in MachineIDs :
          /\ InOrder(order, id)
          /\ ~CfgOf(cfgs, id).Enabled
          /\ CfgOf(cfgs, id).HitEnabled
          /\ RtOf(rts, id).HitPending
          /\ RtOf(rts, id).HitCountdown > 1

(* the runtime of a machine at construction: nothing counted, waiting for the reverse
   state, no HIT pending, no base block *)
ConstructionState(rt) ==
    /\ rt.Counter = 0
    /\ rt.WaitingReverse
    /\ ~rt.HitPending
    /\ rt.HitCountdown = 0
    /\ rt.LastTriggerHeight = <<>> /\ rt.LastTriggerHash = <<>> /\ rt.LastTriggerTime = 0

(* C22: StopAll sets enabled = false on every config and changes no runtime and no other
   config field; ResetAll puts every runtime into its construction state and changes no
   config; ResetOne(id) does so for the runtime of id only and leaves every other
   runtime, all configs and the order list unchanged. *)
C22_StopResetFrame ==
    [][/\ lastCall'.op = "StopAll" =>
            /\ DOMAIN cfgs' = DOMAIN cfgs
            /\ \A id \in DOMAIN cfgs :
                  /\ ~cfgs'[id].Enabled
                  /\ [cfgs'[id] EXCEPT !.Enabled = cfgs[id].Enabled] = cfgs[id]
            /\ rts' = rts /\ order' = order
       /\ lastCall'.op = "ResetAll" =>
            /\ DOMAIN rts' = DOMAIN rts
            /\ \A id \in DOMAIN rts : ConstructionState(rts'[id])
            /\ cfgs' = cfgs /\ order' = order
       /\ lastCall'.op = "ResetOne" =>
            /\ lastCall'.ID \in DOMAIN rts'
            /\ ConstructionState(rts'[lastCall'.ID])
            /\ \A id \in DOMAIN rts \ {lastCall'.ID} :
                  id \in DOMAIN rts' /\ rts'[id] = rts[id]
            /\ cfgs' = cfgs /\ order' = order]_vars

(* ResetOne(id) has just run on a configured machine while the other machine has a HIT
   countdown pending *)
C22_Witness ==
    /\ lastCall.op = "ResetOne"
    /\ lastCall.ID \in DOMAIN cfgs
    /\ \E id \in DOMAIN rts \ {lastCall.ID} : rts[id].HitPending /\ cfgs[id].Enabled

(* C29: Upsert of an existing id replaces only that machine's config: its position in the
   order list, its runtime and every other machine stay as they were. Upsert of a new id
   appends it at the end of the order list. After any Upsert the stored config has
   threshold >= 1, hitOffset >= 1 and triggerState, hitExpect in {ON, OFF}. *)
C29_UpsertFrame ==
    [][lastCall'.op = "Upsert" =>
         LET c  == lastCall'.Config
             id == lastCall'.Config.ID
         IN  /\ DOMAIN cfgs' = DOMAIN cfgs \cup {id}
             /\ \A x \in DOMAIN cfgs \ {id} : cfgs'[x] = cfgs[x]
             /\ \A x \in DOMAIN rts : x \in DOMAIN rts' /\ rts'[x] = rts[x]
             /\ IF id \in DOMAIN cfgs
                THEN order' = order /\ rts' = rts
                ELSE order' = order \o <<id>>
             /\ cfgs'[id].ID = id
             /\ cfgs'[id].Enabled = c.Enabled
             /\ cfgs'[id].HitEnabled = c.HitEnabled
             /\ cfgs'[id].Threshold >= 1
             /\ cfgs'[id].HitOffset >= 1
             /\ cfgs'[id].TriggerState \in {ON, OFF}
             /\ cfgs'[id].HitExpect \in {ON, OFF}
             /\ c.Threshold >= 1 => cfgs'[id].Threshold = c.Threshold
             /\ c.HitOffset >= 1 => cfgs'[id].HitOffset = c.HitOffset
             /\ c.TriggerState \in {ON, OFF} => cfgs'[id].TriggerState = c.TriggerState
             /\ c.HitExpect \in {ON, OFF} => cfgs'[id].HitExpect = c.HitExpect]_vars

(* Upsert has just stored a config given with every field out of range, for the first
   of two machines, whose HIT countdown is pending *)
C29_Witness ==
    /\ lastCall.op = "Upsert"
    /\ lastCall.Config.Threshold < 1 /\ lastCall.Config.HitOffset < 1
    /\ Len(order) = 2
    /\ order[1] = lastCall.Config.ID
    /\ rts[order[1]].HitPending
    /\ rts[order[2]].HitPending

(* C24: when a pending HIT countdown reaches zero on the block on which the counter
   reaches threshold, the HIT is evaluated first, against the state of that block and
   the base of the earlier TRIGGER, and cleared before the TRIGGER arms a new countdown:
   a HIT precedes the TRIGGER in the output, and the new countdown stands at hitOffset
   after the call, neither decremented nor evaluated in it. *)
C24_HitBeforeTrigger ==
    [][lastCall'.op = "OnBlock" =>
         \A id \in MachineIDs :
            /\ InOrder(order, id)
            /\ CfgOf(cfgs, id).Enabled /\ CfgOf(cfgs, id).HitEnabled
            /\ RtOf(rts, id).HitPending /\ RtOf(rts, id).HitCountdown <= 1
            /\ HasSignal(out', "TRIGGER", id)
            => /\ HasSignal(out', "HIT", id) <=> lastCall'.State = cfgs[id].HitExpect
               /\ CountSignals(out', "HIT", id) <= 1
               /\ CountSignals(out', "TRIGGER", id) = 1
               /\ \A i, j \in 1..Len(out') :
                     /\ out'[i].MachineID = id /\ out'[i].Type = "HIT"
                     /\ out'[j].MachineID = id /\ out'[j].Type = "TRIGGER"
                     => /\ i < j
                        /\ out'[i].BaseHeight = RtOf(rts, id).LastTriggerHeight
                        /\ out'[i].BaseHash = RtOf(rts, id).LastTriggerHash
               /\ rts'[id].HitPending
               /\ rts'[id].HitCountdown = cfgs[id].HitOffset]_vars

(* a call has just returned a HIT and a TRIGGER of one machine, the HIT based on an
   earlier block than the one of the call *)
C24_Witness ==
    /\ lastCall.op = "OnBlock"
    /\ \E i, j \in 1..Len(out) :
          /\ out[i].Type = "HIT" /\ out[j].Type = "TRIGGER"
          /\ out[i].MachineID = out[j].MachineID
          /\ out[i].BaseHeight # lastCall.Height
          /\ RtOf(rts, out[i].MachineID).HitCountdown > 1

(* C30: TRIGGER completeness, for an enabled machine whose config is never changed.
   gateOpen[id] = k says that the last k blocks found the gate open and, for k below
   its cap, that the block before them closed a wait: it was the reverse of
   triggerState seen while waitingReverse was set.  When that block is followed
   immediately by `threshold` blocks classified as triggerState, the machine emits
   exactly one TRIGGER at the last of them, and none at the earlier ones. *)
C30_TriggerComplete ==
    \A id \in MachineIDs :
        InOrder(order, id) /\ CfgOf(cfgs, id).Enabled /\ lastCall.op = "OnBlock" =>
            /\ StreakBefore(id) => CountSignals(out, "TRIGGER", id) = 1
            /\ gateOpen[id] < cfgs[id].Threshold => ~HasSignal(out, "TRIGGER", id)

(* the last of MaxThreshold blocks classified OFF, right after the ON block that ended
   the wait of a machine triggering on OFF *)
C30_Witness ==
    \E id \in MachineIDs :
        /\ InOrder(order, id) /\ CfgOf(cfgs, id).Enabled
        /\ cfgs[id].TriggerState = OFF
        /\ cfgs[id].Threshold = MaxThreshold
        /\ StreakBefore(id)
        /\ CountSignals(out, "TRIGGER", id) = 1
        /\ rts[id].LastTriggerHeight = lastCall.Height

(* C31: a machine emits no TRIGGER on a block it began with its waitingReverse gate set,
   the block that clears the gate included; and when a machine emits a TRIGGER and its
   previous TRIGGER was emitted under the config it still has, a block in the reverse of
   its triggerState lies between the two and the two are at least Threshold + 1 blocks
   apart. *)
C31_TriggersApart ==
    \A id \in MachineIDs :
        HasSignal(out, "TRIGGER", id) =>
            /\ gateOpen[id] >= 1
            /\ span[id].prev => span[id].prevRev /\ span[id].prevLeft = 0

(* a machine with threshold 1 emits its second TRIGGER, its config unchanged in between *)
C31_Witness ==
    \E id \in MachineIDs :
        /\ HasSignal(out, "TRIGGER", id)
        /\ span[id].prev /\ span[id].prevRev /\ span[id].prevLeft = 0
        /\ CfgOf(cfgs, id).Threshold = 1

(* C32: a TRIGGER of a machine whose config Upsert changed while its counter was not
   zero is preceded, like any other, by Threshold consecutive blocks ending at the block
   of the TRIGGER, all classified as the TriggerState of the config the machine has when
   it emits the TRIGGER. *)
C32_TriggerAfterUpsert ==
    \A id \in MachineIDs :
        HasSignal(out, "TRIGGER", id) /\ dirty[id] /\ lastCall.op = "OnBlock" =>
            LET thr == CfgOf(cfgs, id).Threshold IN
            /\ Len(hist) >= thr
            /\ \A i \in (Len(hist) - thr + 1)..Len(hist) :
                   hist[i] = CfgOf(cfgs, id).TriggerState

(* Manager.RuntimeSnapshot(): a copy of every runtime *)
RuntimeSnapshot == [id \in DOMAIN rts |-> rts[id]]

(* C33: after any sequence of Upsert, Delete, StopAll, ResetAll, ResetOne and OnBlock the
   ids with a config, the ids with a runtime and the elements of the order list are the
   same set and the order list has no duplicates, so that RuntimeSnapshot reports no
   machine without a config. *)
C33_EngineStructure ==
    /\ DOMAIN cfgs = DOMAIN rts
    /\ DOMAIN cfgs = {order[i] : i \in 1..Len(order)}
    /\ \A i, j \in 1..Len(order) : order[i] = order[j] => i = j
    /\ DOMAIN RuntimeSnapshot \subseteq DOMAIN cfgs

(* C34: between OnBlock calls every machine has hitCountdown >= 0, hitCountdown >= 1 if
   hitPending is set and hitCountdown = 0 if it is not; and a call that takes the
   countdown of an enabled machine with hitEnabled from 1 to zero leaves both fields
   cleared, whether or not it emitted a HIT, unless the machine emits a TRIGGER in the
   same call and arms the next HIT. *)
C34_HitFields ==
    /\ [](\A id \in DOMAIN rts :
             /\ rts[id].HitCountdown >= 0
             /\ rts[id].HitPending => rts[id].HitCountdown >= 1
             /\ ~rts[id].HitPending => rts[id].HitCountdown = 0)
    /\ [][\A id \in DOMAIN rts :
             /\ lastCall'.op = "OnBlock"
             /\ InOrder(order, id) /\ CfgOf(cfgs, id).Enabled /\ CfgOf(cfgs, id).HitEnabled
             /\ rts[id].HitPending /\ rts[id].HitCountdown = 1
             /\ ~HasSignal(out', "TRIGGER", id)
             => ~rts'[id].HitPending /\ rts'[id].HitCountdown = 0]_vars

(* the countdown of a machine reached zero on a block that is not its hitExpect: no HIT
   went out and nothing is pending *)
C34_Witness ==
    \E id \in DOMAIN rts :
        /\ lastCall.op = "OnBlock"
        /\ CfgOf(cfgs, id).Enabled /\ CfgOf(cfgs, id).HitEnabled
        /\ due[id] # {}
        /\ lastCall.State # CfgOf(cfgs, id).HitExpect
        /\ ~HasSignal(out, "HIT", id)
        /\ ~HasSignal(out, "TRIGGER", id)
        /\ ~rts[id].HitPending /\ rts[id].HitCountdown = 0
        /\ rts[id].LastTriggerHeight # <<>>

(* C35: between OnBlock calls every machine whose config was not changed since its
   counter was last zero has 0 <= counter < threshold, and a machine with waitingReverse
   set has counter = 0. *)
C35_CounterRange ==
    \A id \in DOMAIN rts \cap DOMAIN cfgs :
        /\ rts[id].WaitingReverse => rts[id].Counter = 0
        /\ ~dirty[id] => 0 <= rts[id].Counter /\ rts[id].Counter < cfgs[id].Threshold

(* a machine with its gate open that has counted a block and is one block short of its
   threshold *)
C35_Witness ==
    \E id \in DOMAIN rts \cap DOMAIN cfgs :
        /\ ~dirty[id]
        /\ lastCall.op = "OnBlock"
        /\ cfgs[id].Enabled
        /\ rts[id].Counter = cfgs[id].Threshold - 1
        /\ rts[id].Counter >= 1
        /\ ~rts[id].WaitingReverse

(* C36: a machine has one pending HIT at most.  A TRIGGER, also one emitted while the
   HIT armed by an earlier TRIGGER is still counting down, leaves the countdown at
   hitOffset and the recorded base at its own block if hitEnabled is set, and leaves
   nothing pending if it is not; a machine emits at most one HIT per block, and every
   HIT carries the block of the machine's most recent TRIGGER before the call. *)
C36_OnePendingHit ==
    /\ [](\A id \in MachineIDs : CountSignals(out, "HIT", id) <= 1)
    /\ [][lastCall'.op = "OnBlock" =>
            \A id \in MachineIDs :
                /\ HasSignal(out', "TRIGGER", id) =>
                      /\ rts'[id].HitPending = CfgOf(cfgs, id).HitEnabled
                      /\ rts'[id].HitCountdown =
                            IF CfgOf(cfgs, id).HitEnabled THEN CfgOf(cfgs, id).HitOffset ELSE 0
                      /\ rts'[id].LastTriggerHeight = lastCall'.Height
                      /\ rts'[id].LastTriggerHash = lastCall'.Hash
                /\ \A i \in 1..Len(out') :
                      out'[i].Type = "HIT" /\ out'[i].MachineID = id =>
                          /\ out'[i].BaseHeight = snap[id].height
                          /\ out'[i].BaseHash = snap[id].hash
                          /\ snap[id].height # <<>>]_vars

(* a machine emits a TRIGGER on block 9 while the HIT armed by its TRIGGER on block 7
   is still counting down: the countdown starts again and the base is block 9 *)
C36_Witness ==
    \E id \in DOMAIN rts :
        /\ HasSignal(out, "TRIGGER", id)
        /\ \E p \in pend[id] : p.left < CfgOf(cfgs, id).HitOffset
        /\ CfgOf(cfgs, id).HitEnabled
        /\ rts[id].HitPending
        /\ rts[id].HitCountdown = MaxOffset
        /\ rts[id].LastTriggerHeight = <<"9">>
        /\ ~dirty[id] /\ span[id].prev

(* C20: every machine runtime starts with waitingReverse = true, both the runtimes
   NewManager leaves behind and the runtime created for an id that Upsert, or any other
   operation, sees for the first time. *)
C20_RuntimeStartsWaiting ==
    /\ \A id \in DOMAIN rts : rts[id].WaitingReverse
    /\ [][\A id \in DOMAIN rts' \ DOMAIN rts : rts'[id].WaitingReverse]_vars

----------------------------------------------------------------------------
(* Claims about the dedup ring *)

KeysOf(blocks) == {makeKey(blocks[i]) : i \in 1..Len(blocks)}

PairOf(b) == <<b.Height, b.Hash>>

(* C7, as stated: the (height, hash) keys of all blocks Push admitted are pairwise
   distinct (here: of the last RingSize + 2 admitted blocks). *)
C7_AdmittedDistinct ==
    \A i, j \in 1..Len(admitted) : i # j => PairOf(admitted[i]) # PairOf(admitted[j])

(* C7, amended: any RingSize + 1 consecutively admitted blocks have pairwise distinct
   (height, hash) keys; a block may be admitted again once RingSize other blocks
   were admitted after it. *)
C7_AdmittedDistinctWithinWindow ==
    \A i, j \in 1..Len(admitted) :
        i < j /\ j - i <= RingSize => PairOf(admitted[i]) # PairOf(admitted[j])

(* more than RingSize blocks were admitted and a duplicate of a stored one was refused *)
C7_Witness ==
    /\ Len(admitted) > RingSize
    /\ ringRet.op = "Push"
    /\ ~ringRet.ok

(* C8: at most `size` items are stored, their keys are pairwise distinct, and the index
   holds exactly the keys of the stored items. *)
C8_RingInvariant ==
    /\ Len(ringItems) <= RingSize
    /\ \A i, j \in 1..Len(ringItems) :
          i # j => makeKey(ringItems[i]) # makeKey(ringItems[j])
    /\ ringIndex = KeysOf(ringItems)

(* a full ring after an eviction *)
C8_Witness ==
    /\ Len(ringItems) = RingSize
    /\ Len(admitted) > RingSize

(* C9: Push(b) returns false and changes neither items nor index when b's key is the
   key of a stored item; otherwise it returns true and b is then the newest item, with
   its key in the index. *)
C9_PushContract ==
    [][ringRet'.op = "Push" =>
          LET b == ringRet'.arg IN
          IF makeKey(b) \in KeysOf(ringItems)
          THEN ~ringRet'.ok /\ UNCHANGED <<ringItems, ringIndex>>
          ELSE /\ ringRet'.ok
               /\ ringItems' # <<>>
               /\ ringItems'[Len(ringItems')] = b
               /\ makeKey(b) \in ringIndex'
               /\ makeKey(b) \in KeysOf(ringItems')]_vars

(* a block refused although it differs (in its timestamp) from the stored one *)
C9_Witness ==
    /\ ringRet.op = "Push"
    /\ ~ringRet.ok
    /\ \E i \in 1..Len(ringItems) :
          makeKey(ringItems[i]) = makeKey(ringRet.arg) /\ ringItems[i] # ringRet.arg

(* C10: the ring holds the most recently admitted blocks in admission order, so an
   admission into a full ring removes exactly the item admitted earliest; List returns
   the stored items newest first. *)
C10_Fifo ==
    /\ ringItems = LastN(admitted, RingSize)
    /\ ringRet.op = "List" => ringRet.list = ReverseSeq(LastN(admitted, RingSize))

(* List on a full ring after an eviction *)
C10_Witness ==
    /\ ringRet.op = "List"
    /\ Len(ringRet.list) = RingSize
    /\ Len(admitted) > RingSize

----------------------------------------------------------------------------
(* Claims about the Core *)

(* C5: once SwitchJudgeRule has returned and until a further block is admitted, every
   runtime has counter 0, waitingReverse set, no HIT pending and countdown 0, the ring
   is empty and lastHeightNum is 0. *)
C5_AfterSwitch ==
    switched =>
        /\ \A id \in DOMAIN rts :
              /\ rts[id].Counter = 0
              /\ rts[id].WaitingReverse
              /\ ~rts[id].HitPending
              /\ rts[id].HitCountdown = 0
        /\ ringItems = <<>>
        /\ ringIndex = {}
        /\ lastHeightNum = 0

(* C6: no step of SwitchJudgeRule is taken while a Core.OnBlock call is between its
   admission and its return, so every block is classified under the rule in force when
   it was admitted. *)
C6_SwitchExcludesOnBlock ==
    /\ ~(rpc # "idle" /\ spc # "idle")
    /\ rpc \in {"feed", "broadcast"} => rstate = Decide(radmRule, rblk.Hash)

(* Core.SwitchJudgeRule has returned at least once and none is running *)
SwitchDone == spc = "idle" /\ srule # ""

(* C37: the machines that Core.SwitchJudgeRule stopped stay disabled until Upsert
   enables them; once the switch has reset them they keep the runtime of a cold start,
   Manager.OnBlock emits no TRIGGER and no HIT for them and leaves their runtimes as they
   are; after the switch returned the judge has the new rule, and a machine that Upsert
   then enables has the config and the runtime NewManager would give it. *)
C37_StoppedAfterSwitch ==
    /\ [](/\ \A id \in stopped : id \in DOMAIN cfgs /\ ~cfgs[id].Enabled
          /\ spc \in {"ringReset", "setRule", "lastHeight"} \/ SwitchDone =>
                \A id \in stopped : id \in DOMAIN rts /\ rts[id] = ResetRuntime
          /\ SwitchDone => judgeRule = srule)
    /\ [][/\ lastCall'.op = "OnBlock" =>
                \A id \in stopped :
                    /\ ~HasSignal(out', "TRIGGER", id)
                    /\ ~HasSignal(out', "HIT", id)
                    /\ rts'[id] = rts[id]
           /\ SwitchDone /\ lastCall'.op = "Upsert" /\ lastCall' # lastCall =>
                LET c == lastCall'.Config
                    m == NewManager(<<c>>)
                IN  c.ID \in stopped /\ c.Enabled =>
                        /\ cfgs'[c.ID] = m.cfgs[c.ID]
                        /\ rts'[c.ID] = m.rts[c.ID]
                        /\ c.ID \notin stopped']_vars

(* after a switch to another rule returned, a block went through Manager.OnBlock while
   the machine was still stopped *)
C37_Witness ==
    /\ SwitchDone
    /\ judgeRule # Lucky
    /\ stopped # {}
    /\ lastCall.op = "OnBlock"
    /\ rpc = "broadcast"
    /\ out = <<>>

----------------------------------------------------------------------------
(* Claims about the Judge *)

HexLetters == {"a", "b", "c", "d", "e", "f"}

Decimals == ("0" :> 0) @@ ("1" :> 1) @@ ("2" :> 2) @@ ("3" :> 3) @@ ("4" :> 4) @@
            ("5" :> 5) @@ ("6" :> 6) @@ ("7" :> 7) @@ ("8" :> 8) @@ ("9" :> 9)

UpperToLower == ("A" :> "a") @@ ("B" :> "b") @@ ("C" :> "c") @@ ("D" :> "d") @@
                ("E" :> "e") @@ ("F" :> "f") @@ ("G" :> "g")

Lowercased(hash) ==
    [i \in 1..Len(hash) |->
        IF hash[i] \in DOMAIN UpperToLower THEN UpperToLower[hash[i]] ELSE hash[i]]

(* LUCKY as specified: on the lowercased hash, ON exactly when one of the last two
   characters is a hex letter and the other a decimal digit *)
LuckyAsSpecified(hash) ==
    LET h == Lowercased(hash) IN
    IF Len(h) < 2 THEN OFF
    ELSE LET a == h[Len(h) - 1]
             b == h[Len(h)]
         IN  IF \/ a \in HexLetters /\ b \in DOMAIN Decimals
                \/ a \in DOMAIN Decimals /\ b \in HexLetters
             THEN ON ELSE OFF

(* C14: under rule LUCKY, Decide returns ON exactly when, of the last two characters of
   the lowercased hash, one is a hex letter a-f and the other a digit 0-9, and OFF for
   every other hash (shorter than two characters, or a character outside [0-9a-f]). *)
C14_LuckyHexOnly ==
    (judgeRet.op = "Decide" /\ judgeRet.rule = Lucky)
        => judgeRet.res = LuckyAsSpecified(judgeRet.hash)

(* C15: under BIG and ODD, Decide looks at the last decimal digit d of the hash and at
   nothing else: BIG is ON iff d is in 0..4, ODD is ON iff d is even, both are OFF when
   the hash has no digit. *)
C15_BigOddLastDigit ==
    judgeRet.op = "Decide" =>
        LET h == judgeRet.hash
            digits == {i \in 1..Len(h) : h[i] \in DOMAIN Decimals}
            last == CHOOSE i \in digits : \A j \in digits : j <= i
        IN  /\ judgeRet.res \in Results
            /\ judgeRet.rule = Big =>
                  (judgeRet.res = ON <=> (digits # {} /\ Decimals[h[last]] \in 0..4))
            /\ judgeRet.rule = Odd =>
                  (judgeRet.res = ON <=> (digits # {} /\ Decimals[h[last]] % 2 = 0))

(* BIG has decided a hash whose last digit is followed by a letter and preceded by a
   digit of the other class *)
C15_Witness ==
    /\ judgeRet.op = "Decide"
    /\ judgeRet.rule = Big
    /\ Len(judgeRet.hash) = MaxHashLen
    /\ judgeRet.hash[MaxHashLen - 1] = "5"
    /\ judgeRet.hash[MaxHashLen] = "3"
    /\ judgeRet.res = ON

----------------------------------------------------------------------------
(* Claims about the Dispatcher *)

(* the result arr[i] succeeded and its key differs from the memo of its source *)
FreshAt(arr, memo, i) ==
    /\ arr[i].Err = NoErr
    /\ arr[i].Block # Nil
    /\ \/ arr[i].From \notin DOMAIN memo
       \/ memo[arr[i].From] # arr[i].Block.Height \o <<":">> \o arr[i].Block.Hash

(* C16: FetchAny returns the first result, in order of arrival, that succeeded with a key
   other than the memo of its source, and sets that source's memo to the key; it returns
   no block equal to the memo of its source and nothing from a disabled source. *)
C16_FetchAnyFirstFresh ==
    fetchRet.op = "FetchAny" =>
        LET arr == fetchRet.arr
            memo == fetchRet.memo
            fresh == {i \in 1..Len(arr) : FreshAt(arr, memo, i)}
        IN  /\ fresh # {} =>
                  LET i == CHOOSE k \in fresh : \A j \in fresh : k <= j
                      key == arr[i].Block.Height \o <<":">> \o arr[i].Block.Hash
                  IN  /\ fetchRet.Block = arr[i].Block
                      /\ fetchRet.Err = NoErr
                      /\ arr[i].From \in DOMAIN lastSeen
                      /\ lastSeen[arr[i].From] = key
                      /\ \A id \in DOMAIN lastSeen \ {arr[i].From} :
                            id \in DOMAIN memo /\ lastSeen[id] = memo[id]
                      /\ \E k \in 1..Len(fetchRet.srcs) :
                            fetchRet.srcs[k].ID = arr[i].From /\ fetchRet.srcs[k].Enabled
            /\ fresh = {} => fetchRet.Block = Nil /\ lastSeen = memo

(* FetchAny passed over a successful result that repeated the memo of its source and
   returned the block of a later arrival *)
C16_Witness ==
    /\ fetchRet.op = "FetchAny"
    /\ Len(fetchRet.arr) = 2
    /\ fetchRet.arr[1].Err = NoErr
    /\ fetchRet.arr[1].Block # Nil
    /\ ~FreshAt(fetchRet.arr, fetchRet.memo, 1)
    /\ fetchRet.Block # Nil
    /\ fetchRet.Block = fetchRet.arr[2].Block

(* C17: FetchAny returns a block or DEADLINE, and DEADLINE only when every launched
   fetcher failed or timed out; a successful answer that repeats the block the source
   yielded last is not turned into an error. *)
C17_DeadlineOnlyOnFailure ==
    fetchRet.op = "FetchAny" =>
        /\ (fetchRet.Block # Nil) # (fetchRet.Err = DeadlineExceeded)
        /\ fetchRet.Err = DeadlineExceeded =>
              \A i \in 1..Len(fetchRet.arr) :
                  fetchRet.arr[i].Err # NoErr \/ fetchRet.arr[i].Block = Nil

(* the sources whose memo differs between the memos m1 and m2 *)
MemoChanged(m1, m2) ==
    {id \in DOMAIN m1 \cup DOMAIN m2 :
        id \notin DOMAIN m1 \/ id \notin DOMAIN m2 \/ m1[id] # m2[id]}

(* C40: a FetchAny call changes the memo of one source at most, the source of the block
   it returns, to the key of that block; a call that returns a block changes that one
   memo, and a call that returns DEADLINE changes none.  The memos of sources whose
   result arrived later, or was passed over as a repetition, stay as they were. *)
C40_MemoFrame ==
    fetchRet.op = "FetchAny" =>
        LET changed == MemoChanged(fetchRet.memo, lastSeen) IN
        /\ Cardinality(changed) <= 1
        /\ (fetchRet.Block # Nil) <=> (changed # {})
        /\ \A id \in changed :
              /\ fetchRet.Block # Nil
              /\ lastSeen[id] = blockKey(fetchRet.Block)
              /\ \E i \in 1..Len(fetchRet.arr) :
                    /\ fetchRet.arr[i].From = id
                    /\ fetchRet.arr[i].Block = fetchRet.Block
                    /\ \A j \in 1..(i - 1) : ~FreshAt(fetchRet.arr, fetchRet.memo, j)

(* FetchAny returns from one source the block that an earlier call returned from the
   other source, whose memo holds its key; the other source's result, a block new to
   it, arrived later and its memo is left as it was *)
C40_Witness ==
    /\ fetchRet.op = "FetchAny"
    /\ Len(fetchRet.arr) = 2
    /\ fetchRet.Block # Nil
    /\ fetchRet.Block = fetchRet.arr[1].Block
    /\ FreshAt(fetchRet.arr, fetchRet.memo, 2)
    /\ fetchRet.arr[2].From \in DOMAIN fetchRet.memo
    /\ fetchRet.memo[fetchRet.arr[2].From] = blockKey(fetchRet.Block)
    /\ lastSeen[fetchRet.arr[2].From] = fetchRet.memo[fetchRet.arr[2].From]

(* C39: FetchAny returns whenever every fetcher returns, with DEADLINE when it started no
   fetcher; a fetcher goroutine that has its result finds room in the channel, which is
   open, so it never waits to send, and every goroutine of the call ends, those that
   deliver after FetchAny has returned included. *)
C39_FetchAnyEnds ==
    /\ [](\A i \in 1..Len(gor) :
             gor[i].pc = "send" => Len(ch) < ChanCap(faSrcs) /\ ~chClosed)
    /\ [](faPc = "done" /\ (\A i \in 1..Len(gor) : gor[i].pc = "none") =>
             faRet.Err = DeadlineExceeded /\ faRet.Block = Nil)
    /\ (faPc = "recv") ~> (faPc = "done")
    /\ (~GoroutinesEnded) ~> GoroutinesEnded

(* FetchAny returned the block of the first fetcher, the two others delivered their
   results after that, and every goroutine of the call has ended *)
C39_Witness ==
    /\ faPc = "done"
    /\ faRet.Block # Nil
    /\ Cardinality({i \in 1..Len(gor) : gor[i].late}) = 2
    /\ Len(ch) = 2
    /\ GoroutinesEnded

----------------------------------------------------------------------------
(* Claims about Core.OnBlock *)

(* C11: a call of Core.OnBlock with a block whose key is in the ring changes neither the
   status fields nor any machine runtime nor the ring and broadcasts nothing; and every
   block held in the ring has driven the machine engine once, or is the block of the
   running call and has not driven it yet. *)
C11_ExactlyOnce ==
    /\ [](\A i \in 1..Len(ringItems) :
             LET k == makeKey(ringItems[i]) IN
             /\ k \in DOMAIN drove
             /\ drove[k] <= 1
             /\ drove[k] = 0 => rpc \in {"gap", "status", "decide", "feed"} /\ makeKey(rblk) = k)
    /\ [][(ringRet' # ringRet /\ ringRet'.op = "Push" /\ ~ringRet'.ok)
            => UNCHANGED <<lastHeight, lastHash, lastTime, lastHeightNum, rts, out,
                           hubSent, ringItems, ringIndex, rpc>>]_vars

(* a block that was processed to the end is delivered again and dropped *)
C11_Witness ==
    /\ ringRet.op = "Push"
    /\ ~ringRet.ok
    /\ rpc = "idle"
    /\ makeKey(ringRet.arg) \in DOMAIN drove
    /\ drove[makeKey(ringRet.arg)] = 1
    /\ lastHash = ringRet.arg.Hash
    /\ Len(ringItems) = RingSize

(* C12: a block with an empty hash or an empty height is rejected without effect: none
   is ever held by the dedup ring, shown in the status fields or fed to the machines. *)
C12_RejectsIncomplete ==
    /\ \A i \in 1..Len(ringItems) :
          ringItems[i].Hash # <<>> /\ ringItems[i].Height # <<>>
    /\ ~lastTime.zero => lastHash # <<>>
    /\ lastCall.op = "OnBlock" => lastCall.Hash # <<>> /\ lastCall.Height # <<>>

(* height of the block admitted last, 0 when the ring is empty or it is no number *)
PrevAdmittedHeight ==
    IF ringItems = <<>> THEN 0 ELSE mustParseInt64(ringItems[Len(ringItems)].Height)

(* C13: a step that admits a block with height h adds exactly 1 to majorIncidents when
   the previously admitted height is > 0 and h > previous + 1, and nothing otherwise;
   it sets lastHeight to h, feeds the block to the machine engine and broadcasts the
   signals the engine returned.  A step that admits nothing leaves majorIncidents. *)
C13_GapCounted ==
    [][IF ringItems' # ringItems
       THEN LET b == ringItems'[Len(ringItems')]
                h == mustParseInt64(b.Height)
            IN  /\ majorIncidents' = majorIncidents
                      + (IF PrevAdmittedHeight > 0 /\ h > PrevAdmittedHeight + 1 THEN 1 ELSE 0)
                /\ lastHeight' = h
                /\ lastCall'.op = "OnBlock"
                /\ lastCall'.Height = b.Height /\ lastCall'.Hash = b.Hash
                /\ lastCall'.State = Decide(judgeRule, b.Hash)
                /\ hubSent' = out'
       ELSE majorIncidents' = majorIncidents]_vars

(* heights 5, 6, 9: the block after the gap was counted as one incident and the TRIGGER
   it caused was broadcast *)
C13_Witness ==
    /\ majorIncidents = 1
    /\ coreRet.op = "OnBlock"
    /\ coreRet.arg # Nil
    /\ coreRet.arg.Height = <<"9">>
    /\ Len(ringItems) = RingSize
    /\ lastHeight = 9
    /\ \E i \in 1..Len(hubSent) : hubSent[i].Type = "TRIGGER"

----------------------------------------------------------------------------
(* Claims about the Runner *)

(* C18: an iteration of Run whose FetchAny failed ends Run when the policy it read is
   MANUAL, and otherwise sleeps failWait without calling Core.OnBlock; an iteration whose
   FetchAny returned a block calls Core.OnBlock once, with that block, and then sleeps
   baseTick.  Core.OnBlock is called at no other point, and never after Run returned. *)
C18_RunnerPolicy ==
    /\ [](\/ trail = <<>>
          \/ /\ trail = <<[ev |-> "error"]>>
             /\ ~runLocal.auto
             /\ runPc = "returned"
          \/ /\ trail = <<[ev |-> "error"], [ev |-> "sleep", d |-> runLocal.wait]>>
             /\ runLocal.auto
             /\ runPc \in {"failSleep", "select", "returned"}
          \/ /\ trail = <<[ev |-> "block", b |-> runFetch.Block]>>
             /\ runFetch.Block # Nil
             /\ runPc = "onBlock"
          \/ /\ trail = <<[ev |-> "block", b |-> runFetch.Block],
                           [ev |-> "OnBlock", b |-> runFetch.Block],
                           [ev |-> "sleep", d |-> runLocal.tick]>>
             /\ coreRet.op = "OnBlock" /\ coreRet.arg = runFetch.Block
             /\ runPc \in {"tickSleep", "select", "returned"})
    /\ [][/\ coreRet' # coreRet => runPc = "onBlock" /\ runPc' = "tickSleep"
          /\ runPc = "returned" => runPc' = "returned" /\ coreRet' = coreRet]_vars

(* Run has processed a block, then read the MANUAL policy, and left the loop on a poll
   error without having been stopped *)
C18_Witness ==
    /\ trail = <<[ev |-> "error"]>>
    /\ runPc = "returned"
    /\ ~stopCh
    /\ coreRet.op = "OnBlock"
    /\ failWait = MinWaitMinutes
    /\ baseTick = MinBaseTick

(* C19: once Stop has been called Run returns, without waiting for a timer to fire, and
   it calls Core.OnBlock at most once more. *)
C19_StopEndsRun ==
    /\ [](stopCh => <>(runPc = "returned"))
    /\ [](afterStop <= 1)

(* Stop arrived while a block was in hand: Run fed it to the Core, then left its sleep
   on the closed stop channel *)
C19_Witness ==
    /\ stopCh
    /\ runPc = "returned"
    /\ afterStop = 1
    /\ Len(trail) = 3

(* C38: whatever number of threads call Runner.Stop, one after the other or at the
   same time, close(r.stopCh) is executed once at most and no call panics. *)
C38_StopOnce ==
    /\ closes <= 1
    /\ ~stopPanic

----------------------------------------------------------------------------
(* Claims about the hub and the broadcast loop of Core.OnBlock *)

(* position of machine id in the order list *)
PosInOrder(id) == CHOOSE i \in 1..Len(order) : order[i] = id

(* C23: within one Manager.OnBlock call the machines are processed in the order of the
   order list (each id once, where its first Upsert put it), the returned slice lists
   the signals in that machine order, and Core.OnBlock passes the signals to the hub one
   by one in exactly the order of the slice, each exactly once. *)
C23_SignalOrder ==
    /\ \A i, j \in 1..Len(order) : order[i] = order[j] => i = j
    /\ rpc = "broadcast" => rsigs = out
    /\ \A i, j \in 1..Len(rsigs) :
          i < j => /\ InOrder(order, rsigs[i].MachineID)
                   /\ InOrder(order, rsigs[j].MachineID)
                   /\ PosInOrder(rsigs[i].MachineID) <= PosInOrder(rsigs[j].MachineID)
    /\ Len(hubSent) <= Len(rsigs)
    /\ \A i \in 1..Len(hubSent) : hubSent[i] = rsigs[i]
    /\ rpc = "idle" => hubSent = rsigs

(* a call has returned after passing a signal of m2 and then one of m1 to the hub, m2
   being the first machine of the order list, with a subscriber registered *)
C23_Witness ==
    /\ rpc = "idle"
    /\ order = <<"m2", "m1">>
    /\ Len(hubSent) = 2
    /\ hubSent[1].MachineID = "m2"
    /\ hubSent[2].MachineID = "m1"
    /\ clients # {}

(* the writes of the running or last Core.OnBlock on c that carried its n-th signal *)
WritesOf(log, c, n) == {p \in 1..Len(log[c]) : log[c][p].n = n}

(* C25: Hub.Broadcast attempts one write per subscriber registered when it starts; a
   subscriber whose write fails is closed and removed, so that no later Broadcast writes
   to it and Count() does not count it; the failure does not keep the remaining
   subscribers from their write; and no error reaches the caller, whose loop goes on
   with the next signal. *)
C25_BroadcastContract ==
    /\ [](/\ failed \subseteq closed
          /\ failed \cap clients = {}
          /\ Count <= Cardinality(Conns \ failed)
          /\ hi > 0 =>
                \A p \in 1..Len(hconns) :
                   Cardinality(WritesOf(wlog, hconns[p], Len(hubSent) + 1))
                      = IF p < hi THEN 1 ELSE 0)
    /\ [][/\ (rpc = "broadcast" /\ hi = 0 /\ Len(hubSent) < Len(rsigs)
               /\ <<hconns, hi, hubSent>>' # <<hconns, hi, hubSent>>) =>
                /\ {hconns'[p] : p \in 1..Len(hconns')} = clients
                /\ Len(hconns') = Cardinality(clients)
                /\ \A p \in 1..Len(hconns') : hconns'[p] \notin failed
          /\ (hi > 0 /\ hi' = 0) =>
                /\ \A p \in 1..Len(hconns) :
                      Cardinality(WritesOf(wlog', hconns[p], Len(hubSent) + 1)) = 1
                /\ hubSent' = Append(hubSent, rsigs[Len(hubSent) + 1])
                /\ rpc' = "broadcast"]_vars

(* a Broadcast has returned whose first write failed and whose second write, on the
   other subscriber, succeeded; Count() is 1 *)
C25_Witness ==
    /\ hi = 0
    /\ Len(hubSent) >= 1
    /\ Len(hconns) = 2
    /\ wlog[hconns[1]] # <<>> /\ ~wlog[hconns[1]][Len(wlog[hconns[1]])].ok
    /\ wlog[hconns[2]] # <<>> /\ wlog[hconns[2]][Len(wlog[hconns[2]])].ok
    /\ wlog[hconns[1]][Len(wlog[hconns[1]])].n = wlog[hconns[2]][Len(wlog[hconns[2]])].n
    /\ hconns[1] \in failed
    /\ Count = 1

(* C26: for each subscriber, the signals produced inside one Core.OnBlock call are
   written in the order in which the engine produced them: the writes on it carry
   signals of strictly increasing position in the slice, so never signal j before
   signal i and never the same signal twice, and nothing follows a failed write. *)
C26_PerSubscriberOrder ==
    \A c \in Conns :
        /\ \A p \in 1..Len(wlog[c]) :
              /\ wlog[c][p].n \in 1..Len(rsigs)
              /\ wlog[c][p].sig = rsigs[wlog[c][p].n]
              /\ ~wlog[c][p].ok => p = Len(wlog[c])
        /\ \A p, q \in 1..Len(wlog[c]) : p < q => wlog[c][p].n < wlog[c][q].n

(* two subscribers have each been written the first and then the second signal of a
   call, a TRIGGER of each machine *)
C26_Witness ==
    /\ Len(rsigs) = 2
    /\ rsigs[1].MachineID # rsigs[2].MachineID
    /\ \A c \in Conns :
          /\ Len(wlog[c]) = 2
          /\ wlog[c][1].ok /\ wlog[c][2].ok
          /\ wlog[c][1].sig = rsigs[1] /\ wlog[c][2].sig = rsigs[2]

----------------------------------------------------------------------------
(* Claims about the Limiter and the fetchers *)

(* C27: the limiter always has 0 <= tokens <= maxRate and 1 <= baseRate <= maxRate;
   Allow() returns true and removes exactly one token iff, after the refill at baseRate
   tokens per elapsed second capped at maxRate, at least one token is there, and
   otherwise returns false and consumes nothing; Update(base, max) lowers the tokens to
   the new maxRate when they exceed it and never raises them. *)
C27_LimiterContract ==
    /\ 0 <= limTokens /\ limTokens <= limMax * TicksPerSec
    /\ 1 <= limBase /\ limBase <= limMax
    /\ limRet.op = "Allow" =>
          LET gain == IF limRet.elapsed0 > 0 THEN limRet.elapsed0 * limBase ELSE 0
              have == Min(limMax * TicksPerSec, limRet.tokens0 + gain)
          IN  /\ limRet.ok <=> have >= TicksPerSec
              /\ limRet.ok => limTokens = have - TicksPerSec
              /\ ~limRet.ok => limTokens = have
    /\ limRet.op = "Update" =>
          /\ limTokens <= limRet.tokens0
          /\ limTokens = Min(limRet.tokens0, limMax * TicksPerSec)

(* Allow has just returned true on a limiter that held less than one token before the
   refill and still holds a fraction of one *)
C27_Witness ==
    /\ limRet.op = "Allow"
    /\ limRet.ok
    /\ limRet.tokens0 < TicksPerSec
    /\ limRet.elapsed0 > 0
    /\ limTokens > 0
    /\ limTokens < limMax * TicksPerSec

(* C28: a fetcher returns either an error or a Block with non-empty hash, height > 0
   and timestampUnix > 0, so a response lacking any of these yields an error; a
   disabled source returns an error without asking the limiter for a token or issuing a
   request, and a rate-limited source returns an error without issuing a request. *)
C28_FetcherContract ==
    fetchOut.op = "FetchLatest" =>
        /\ (fetchOut.block = Nil) # (fetchOut.err = NoErr)
        /\ fetchOut.block # Nil =>
              /\ fetchOut.block.Hash # <<>>
              /\ parseHeight(fetchOut.block.Height) > 0
              /\ fetchOut.block.TimeUnix > 0
        /\ ~fetchOut.enabled =>
              fetchOut.err # NoErr /\ ~fetchOut.asked /\ ~fetchOut.requested
        /\ fetchOut.err = "rate_limited" => ~fetchOut.requested

====
